---- MODULE Spec2Model ----
(***************************************************************************)
(* The search and ranking subsystem: EnhancedSearchService                 *)
(* (src/src/lib/enhanced-search.ts), the query planner of NLPService       *)
(* (src/unnamed/part_011), the record store TravelDatabase                 *)
(* (src/unnamed/part_010), the enrichment client AIService                 *)
(* (src/src/lib/image-processing.ts) and the caller UniversalSearch        *)
(* (src/src/components/universal-search.tsx).                              *)
(*                                                                         *)
(* A step of the model is one task of the JavaScript event loop together   *)
(* with the promise continuations (microtasks) it releases.  A request to  *)
(* the record store (IndexedDB) and a fetch are answered by a later task;  *)
(* an await on an already available value only yields to the microtask     *)
(* queue, so no other task runs in between: the variable running names the *)
(* call whose continuations are being drained.                             *)
(*                                                                         *)
(* Texts are sequences of words.  Scores are integers in units of 1/Unit.  *)
(***************************************************************************)
EXTENDS Integers, Sequences, FiniteSets, TLC

\* ---------------------------------------------------------------- bounds
\* Deepest chain of nested calls (semanticSearch -> search -> search) followed.
MaxDepth == 3
\* Number of clock ticks the model lets pass.
MaxTicks == 2
\* Number of calls of initialize and rebuildIndex the model follows.
MaxBuilds == 2

\* ------------------------------------------------------ program constants
\* A refresh interval of one minute
oneMinute == 60 * 1000

indexUpdateInterval == 5 * 60 * 1000
DefaultLimit == 20
NlpLimit == 10
EntityLimit == 5
LocationLimit == 10
PersonLimit == 5
\* Scores are counted in millionths: Unit is the score 1.
Unit == 1000 * 1000
Mul(s, tenths) == (s * tenths) \div 10
DefaultThreshold == Mul(Unit, 3)
FuseThreshold == Mul(Unit, 4)

\* One tick of the model clock, in milliseconds: two ticks exceed the refresh
\* interval, one does not.
TickMs == 3 * 60 * 1000
\* Date.now() when the page is loaded: far more than the interval after 0.
StartTime == 10 * 60 * 1000

Stores ==
  << "travelPins", "people", "journalEntries", "expenses",
     "checklistItems", "learningEntries", "foodEntries", "gearItems" >>

StoreNames == { Stores[i] : i \in 1..Len(Stores) }

\* options.modules left undefined
NoModules == { "<undefined>" }

\* ------------------------------------------------------------------ words
\* The vocabulary of the model, with what the tagging library (compromise)
\* makes of each word.  "Will" is a person's name whose lower-case form is a
\* modal verb; "LA" is a place of two letters; "temple" is a noun.
Vocabulary ==
  { "temple", "Will", "will", "LA", "la", "quickly", "go", "in", "with", "it" }

\* The characters of every word of the model: the words of the queries and
\* texts, and the keywords of NLPService
Spell(w) ==
  CASE w = "temple" -> << "t", "e", "m", "p", "l", "e" >>
    [] w = "Will" -> << "W", "i", "l", "l" >>
    [] w = "will" -> << "w", "i", "l", "l" >>
    [] w = "LA" -> << "L", "A" >>
    [] w = "la" -> << "l", "a" >>
    [] w = "quickly" -> << "q", "u", "i", "c", "k", "l", "y" >>
    [] w = "go" -> << "g", "o" >>
    [] w = "in" -> << "i", "n" >>
    [] w = "with" -> << "w", "i", "t", "h" >>
    [] w = "it" -> << "i", "t" >>
    [] w = "from" -> << "f", "r", "o", "m" >>
    [] w = "find" -> << "f", "i", "n", "d" >>
    [] w = "cheap" -> << "c", "h", "e", "a", "p" >>
    [] w = "food" -> << "f", "o", "o", "d" >>
    [] w = "expensive" -> << "e", "x", "p", "e", "n", "s", "i", "v", "e" >>
    [] w = "hotel" -> << "h", "o", "t", "e", "l" >>
    [] w = "costly" -> << "c", "o", "s", "t", "l", "y" >>
    [] w = "restaurant" -> << "r", "e", "s", "t", "a", "u", "r", "a", "n", "t" >>
    [] w = "Budget" -> << "B", "u", "d", "g", "e", "t" >>
    [] w = "flight" -> << "f", "l", "i", "g", "h", "t" >>
    [] w = "museum" -> << "m", "u", "s", "e", "u", "m" >>
    [] w = "I" -> << "I" >>
    [] w = "had" -> << "h", "a", "d" >>
    [] w = "an" -> << "a", "n" >>
    [] w = "amazing" -> << "a", "m", "a", "z", "i", "n", "g" >>
    [] w = "dinner" -> << "d", "i", "n", "n", "e", "r" >>
    [] w = "Paris" -> << "P", "a", "r", "i", "s" >>
    [] w = "Maria," -> << "M", "a", "r", "i", "a", "," >>
    [] w = "Maria" -> << "M", "a", "r", "i", "a" >>
    [] w = "cost" -> << "c", "o", "s", "t" >>
    [] w = "$45.50" -> << "$", "4", "5", ".", "5", "0" >>
    [] w = "on" -> << "o", "n" >>
    [] w = "12/05/2024" -> << "1", "2", "/", "0", "5", "/", "2", "0", "2", "4" >>
    [] w = "great" -> << "g", "r", "e", "a", "t" >>
    [] w = "bad" -> << "b", "a", "d" >>
    [] w = "sad" -> << "s", "a", "d" >>
    [] w = "Visited" -> << "V", "i", "s", "i", "t", "e", "d" >>
    [] w = "ancient" -> << "a", "n", "c", "i", "e", "n", "t" >>
    [] w = "the" -> << "t", "h", "e" >>
    [] w = "mountains" -> << "m", "o", "u", "n", "t", "a", "i", "n", "s" >>
    [] w = "beach" -> << "b", "e", "a", "c", "h" >>
    [] w = "forest" -> << "f", "o", "r", "e", "s", "t" >>
    [] w = "park" -> << "p", "a", "r", "k" >>
    [] w = "market" -> << "m", "a", "r", "k", "e", "t" >>
    [] w = "bus" -> << "b", "u", "s" >>
    [] w = "love" -> << "l", "o", "v", "e" >>
    [] w = "badge" -> << "b", "a", "d", "g", "e" >>
    [] w = "last" -> << "l", "a", "s", "t" >>
    [] w = "week" -> << "w", "e", "e", "k" >>
    [] w = "trip" -> << "t", "r", "i", "p" >>
    [] w = "this" -> << "t", "h", "i", "s" >>
    [] w = "month" -> << "m", "o", "n", "t", "h" >>
    [] w = "budget" -> << "b", "u", "d", "g", "e", "t" >>
    [] w = "terrible" -> << "t", "e", "r", "r", "i", "b", "l", "e" >>
    [] w = "awful" -> << "a", "w", "f", "u", "l" >>
    [] w = "meal" -> << "m", "e", "a", "l" >>
    [] w = "wonderful" -> << "w", "o", "n", "d", "e", "r", "f", "u", "l" >>
    [] w = "hiking" -> << "h", "i", "k", "i", "n", "g" >>
    [] w = "Nice" -> << "N", "i", "c", "e" >>
    [] w = "Old" -> << "O", "l", "d" >>
    [] w = "travel" -> << "t", "r", "a", "v", "e", "l" >>
    [] w = "vacation" -> << "v", "a", "c", "a", "t", "i", "o", "n" >>
    [] w = "journey" -> << "j", "o", "u", "r", "n", "e", "y" >>
    [] w = "adventure" -> << "a", "d", "v", "e", "n", "t", "u", "r", "e" >>
    [] w = "explore" -> << "e", "x", "p", "l", "o", "r", "e" >>
    [] w = "visit" -> << "v", "i", "s", "i", "t" >>
    [] w = "tour" -> << "t", "o", "u", "r" >>
    [] w = "cuisine" -> << "c", "u", "i", "s", "i", "n", "e" >>
    [] w = "dining" -> << "d", "i", "n", "i", "n", "g" >>
    [] w = "eat" -> << "e", "a", "t" >>
    [] w = "taste" -> << "t", "a", "s", "t", "e" >>
    [] w = "cook" -> << "c", "o", "o", "k" >>
    [] w = "dish" -> << "d", "i", "s", "h" >>
    [] w = "culture" -> << "c", "u", "l", "t", "u", "r", "e" >>
    [] w = "church" -> << "c", "h", "u", "r", "c", "h" >>
    [] w = "monument" -> << "m", "o", "n", "u", "m", "e", "n", "t" >>
    [] w = "art" -> << "a", "r", "t" >>
    [] w = "history" -> << "h", "i", "s", "t", "o", "r", "y" >>
    [] w = "nature" -> << "n", "a", "t", "u", "r", "e" >>
    [] w = "mountain" -> << "m", "o", "u", "n", "t", "a", "i", "n" >>
    [] w = "outdoor" -> << "o", "u", "t", "d", "o", "o", "r" >>
    [] w = "booking" -> << "b", "o", "o", "k", "i", "n", "g" >>
    [] w = "expedition" -> << "e", "x", "p", "e", "d", "i", "t", "i", "o", "n" >>
    [] w = "trekking" -> << "t", "r", "e", "k", "k", "i", "n", "g" >>
    [] w = "climbing" -> << "c", "l", "i", "m", "b", "i", "n", "g" >>
    [] w = "extreme" -> << "e", "x", "t", "r", "e", "m", "e" >>
    [] w = "movie" -> << "m", "o", "v", "i", "e" >>
    [] w = "show" -> << "s", "h", "o", "w" >>
    [] w = "concert" -> << "c", "o", "n", "c", "e", "r", "t" >>
    [] w = "festival" -> << "f", "e", "s", "t", "i", "v", "a", "l" >>
    [] w = "party" -> << "p", "a", "r", "t", "y" >>
    [] w = "music" -> << "m", "u", "s", "i", "c" >>
    [] w = "dance" -> << "d", "a", "n", "c", "e" >>
    [] w = "shop" -> << "s", "h", "o", "p" >>
    [] w = "buy" -> << "b", "u", "y" >>
    [] w = "purchase" -> << "p", "u", "r", "c", "h", "a", "s", "e" >>
    [] w = "store" -> << "s", "t", "o", "r", "e" >>
    [] w = "mall" -> << "m", "a", "l", "l" >>
    [] w = "souvenir" -> << "s", "o", "u", "v", "e", "n", "i", "r" >>
    [] w = "transport" -> << "t", "r", "a", "n", "s", "p", "o", "r", "t" >>
    [] w = "train" -> << "t", "r", "a", "i", "n" >>
    [] w = "taxi" -> << "t", "a", "x", "i" >>
    [] w = "uber" -> << "u", "b", "e", "r" >>
    [] w = "drive" -> << "d", "r", "i", "v", "e" >>
    [] w = "walk" -> << "w", "a", "l", "k" >>
    [] w = "beautiful" -> << "b", "e", "a", "u", "t", "i", "f", "u", "l" >>
    [] w = "perfect" -> << "p", "e", "r", "f", "e", "c", "t" >>
    [] w = "excellent" -> << "e", "x", "c", "e", "l", "l", "e", "n", "t" >>
    [] w = "fantastic" -> << "f", "a", "n", "t", "a", "s", "t", "i", "c" >>
    [] w = "awesome" -> << "a", "w", "e", "s", "o", "m", "e" >>
    [] w = "good" -> << "g", "o", "o", "d" >>
    [] w = "best" -> << "b", "e", "s", "t" >>
    [] w = "incredible" -> << "i", "n", "c", "r", "e", "d", "i", "b", "l", "e" >>
    [] w = "horrible" -> << "h", "o", "r", "r", "i", "b", "l", "e" >>
    [] w = "hate" -> << "h", "a", "t", "e" >>
    [] w = "worst" -> << "w", "o", "r", "s", "t" >>
    [] w = "disappointing" -> << "d", "i", "s", "a", "p", "p", "o", "i", "n", "t", "i", "n", "g" >>
    [] w = "poor" -> << "p", "o", "o", "r" >>
    [] w = "angry" -> << "a", "n", "g", "r", "y" >>
    [] w = "journal" -> << "j", "o", "u", "r", "n", "a", "l" >>
    [] w = "accommodation" -> << "a", "c", "c", "o", "m", "m", "o", "d", "a", "t", "i", "o", "n" >>
    [] w = "entertainment" -> << "e", "n", "t", "e", "r", "t", "a", "i", "n", "m", "e", "n", "t" >>
    [] w = "shopping" -> << "s", "h", "o", "p", "p", "i", "n", "g" >>

WordLen(w) ==
  CASE w = "temple" -> 6
    [] w \in { "Will", "will", "with" } -> 4
    [] w \in { "LA", "la", "go", "in", "it" } -> 2
    [] w = "quickly" -> 7
    [] OTHER -> Len(Spell(w))

toLowerCase(w) ==
  CASE w = "Will" -> "will"
    [] w = "LA" -> "la"
    [] w = "Paris" -> "paris"
    [] w = "Maria" -> "maria"
    [] OTHER -> w

Nouns ==
  { "temple", "Will", "LA", "Paris", "Maria,", "museum", "mountains", "beach", "forest",
    "park", "market", "hotel", "flight", "restaurant", "bus", "dinner", "food", "trip",
    "meal", "badge", "week", "month" }
Adjectives == { "cheap", "expensive", "costly", "amazing", "ancient", "great", "bad" }
PeopleNames == { "Will", "Maria," }
PlaceNames == { "LA", "Paris" }

\* The text the tagging library reports for a word: without the comma that
\* follows it
bare(w) == IF w = "Maria," THEN "Maria" ELSE w
Connectors == { "in", "with", "from" }

\* query.length: the words and one blank between two words
StrLen(q) ==
  LET RECURSIVE sum(_)
      sum(i) == IF i > Len(q) THEN 0 ELSE WordLen(q[i]) + sum(i + 1)
  IN  IF q = << >> THEN 0 ELSE sum(1) + (Len(q) - 1)

\* query.includes(' in ') || query.includes(' with ') || query.includes(' from ')
HasConnector(q) == \E i \in 2..(Len(q) - 1) : q[i] \in Connectors

\* Array.from(new Set(seq)): first occurrences, in order
Dedup(seq) ==
  LET RECURSIVE go(_, _)
      go(i, acc) ==
        IF i > Len(seq) THEN acc
        ELSE IF \E j \in 1..Len(acc) : acc[j] = seq[i] THEN go(i + 1, acc)
        ELSE go(i + 1, Append(acc, seq[i]))
  IN  go(1, << >>)

Take(seq, n) == SubSeq(seq, 1, IF n < Len(seq) THEN n ELSE Len(seq))

MapSeq(seq, F(_)) == [ i \in 1..Len(seq) |-> F(seq[i]) ]

\* ------------------------------------------------------------------- text
\* A text is a sequence of characters.
\* String.prototype.toLowerCase on the characters of the model
lowerChar(ch) ==
  CASE ch = "A" -> "a"
    [] ch = "B" -> "b"
    [] ch = "I" -> "i"
    [] ch = "L" -> "l"
    [] ch = "M" -> "m"
    [] ch = "N" -> "n"
    [] ch = "O" -> "o"
    [] ch = "P" -> "p"
    [] ch = "V" -> "v"
    [] ch = "W" -> "w"
    [] OTHER -> ch
lowerCase(text) == [ i \in 1..Len(text) |-> lowerChar(text[i]) ]

\* words.join(' ')
textOf(q) ==
  LET RECURSIVE go(_)
      go(i) == IF i > Len(q) THEN << >>
               ELSE IF i = 1 THEN Spell(q[1]) \o go(2)
               ELSE << " " >> \o Spell(q[i]) \o go(i + 1)
  IN  go(1)

\* String.prototype.includes
includes(text, pat) ==
  \E i \in 0..(Len(text) - Len(pat)) : SubSeq(text, i + 1, i + Len(pat)) = pat

\* The number of places of text where pat begins
occurrences(text, pat) ==
  Cardinality({ i \in 0..(Len(text) - Len(pat)) : SubSeq(text, i + 1, i + Len(pat)) = pat })

\* keywords.some(keyword => text.includes(keyword))
includesSome(text, keywords) ==
  \E i \in 1..Len(keywords) : includes(text, Spell(keywords[i]))

\* part_011 lines 126-129 and 133-134: the keywords of the topics
topicMap ==
  << [ category |-> "travel",
       keywords |-> << "travel", "trip", "vacation", "journey", "adventure", "explore",
                       "visit", "tour" >> ],
     [ category |-> "food",
       keywords |-> << "food", "restaurant", "meal", "cuisine", "dining", "eat", "taste",
                       "cook" >> ],
     [ category |-> "culture",
       keywords |-> << "culture", "museum", "temple", "church", "monument", "art",
                       "history" >> ],
     [ category |-> "nature",
       keywords |-> << "nature", "mountain", "beach", "forest", "park", "hiking",
                       "outdoor" >> ] >>

\* part_011 lines 171-180
categoryMap ==
  << [ category |-> "food",
       keywords |-> << "food", "restaurant", "meal", "eat", "cook", "taste", "cuisine",
                       "dish" >> ],
     [ category |-> "travel",
       keywords |-> << "travel", "trip", "vacation", "journey", "flight", "hotel",
                       "booking" >> ],
     [ category |-> "culture",
       keywords |-> << "museum", "temple", "church", "monument", "art", "history",
                       "culture" >> ],
     [ category |-> "nature",
       keywords |-> << "nature", "mountain", "beach", "forest", "park", "hiking",
                       "outdoor" >> ],
     [ category |-> "adventure",
       keywords |-> << "adventure", "explore", "expedition", "trekking", "climbing",
                       "extreme" >> ],
     [ category |-> "entertainment",
       keywords |-> << "movie", "show", "concert", "festival", "party", "music", "dance" >> ],
     [ category |-> "shopping",
       keywords |-> << "shop", "buy", "purchase", "market", "store", "mall", "souvenir" >> ],
     [ category |-> "transport",
       keywords |-> << "transport", "bus", "train", "taxi", "uber", "drive", "walk" >> ] >>

\* The categories whose keywords some text contains, in the order of the lists
earned(text, lists) ==
  LET has(e) == includesSome(text, e.keywords)
      hits == SelectSeq(lists, has)
  IN  [ i \in 1..Len(hits) |-> hits[i].category ]

\* part_011 lines 122-141
extractTopics(q) == earned(lowerCase(textOf(q)), topicMap)

\* A categorizer that reads the keyword lists of the topics
categorizeAsTopics(q) == earned(lowerCase(textOf(q)), topicMap)

\* part_011 lines 166-189
categorizeContent(q) == earned(lowerCase(textOf(q)), categoryMap)

positiveWords ==
  << "amazing", "great", "wonderful", "beautiful", "love", "perfect", "excellent",
     "fantastic", "awesome", "good", "best", "incredible" >>
negativeWords ==
  << "bad", "terrible", "awful", "horrible", "hate", "worst", "disappointing", "poor",
     "sad", "angry" >>

\* A score that counts every occurrence of every word of the list
polarityByOccurrence(text, wordList) ==
  LET RECURSIVE sum(_)
      sum(i) == IF i > Len(wordList) THEN 0
                ELSE occurrences(text, Spell(wordList[i])) + sum(i + 1)
  IN  sum(1)

\* part_011 lines 153-159: a word of the list that the text includes adds one
polarityScore(text, wordList) ==
  Cardinality({ i \in 1..Len(wordList) : includes(text, Spell(wordList[i])) })

\* A comparison that gives a tie to the positive side
sentimentTiePositive(positiveScore, negativeScore) ==
  IF positiveScore >= negativeScore THEN "positive" ELSE "negative"

\* part_011 lines 161-163
sentimentOf(positiveScore, negativeScore) ==
  IF positiveScore > negativeScore THEN "positive"
  ELSE IF negativeScore > positiveScore THEN "negative"
  ELSE "neutral"

\* part_011 lines 143-164
analyzeSentiment(q) ==
  LET text == lowerCase(textOf(q))
  IN  sentimentOf(polarityScore(text, positiveWords), polarityScore(text, negativeWords))

extractSearchTerms(q) ==
  LET isNoun(w) == w \in Nouns /\ WordLen(w) > 2
      isAdj(w) == w \in Adjectives /\ WordLen(w) > 2
      text(w) == toLowerCase(bare(w))
  IN  Dedup(MapSeq(SelectSeq(q, isNoun) \o SelectSeq(q, isAdj), text))

extractPeople(q) ==
  LET isPerson(w) == w \in PeopleNames /\ WordLen(w) > 1
  IN  MapSeq(SelectSeq(q, isPerson), bare)

extractPlaces(q) ==
  LET isPlace(w) == w \in PlaceNames /\ WordLen(w) > 1
  IN  MapSeq(SelectSeq(q, isPlace), bare)

\* A member that is undefined
Undefined == 0 - 1

ExpensiveMin == 50
CheapMax == 20

\* An amount filter in which the first keyword group found wins
amountFirstWins(text) ==
  IF includes(text, Spell("expensive")) \/ includes(text, Spell("costly"))
    THEN [ min |-> ExpensiveMin, max |-> Undefined ]
  ELSE IF includes(text, Spell("cheap")) \/ includes(text, Spell("budget"))
    THEN [ min |-> Undefined, max |-> CheapMax ]
  ELSE [ min |-> Undefined, max |-> Undefined ]

\* part_011 lines 229-235: filters.amount = { min: 50 }, then
\* filters.amount = { max: 20 }: the second assignment replaces the object
amountFilter(text) ==
  IF includes(text, Spell("cheap")) \/ includes(text, Spell("budget"))
    THEN [ min |-> Undefined, max |-> CheapMax ]
  ELSE IF includes(text, Spell("expensive")) \/ includes(text, Spell("costly"))
    THEN [ min |-> ExpensiveMin, max |-> Undefined ]
  ELSE [ min |-> Undefined, max |-> Undefined ]

\* part_011 lines 237-247: the start of the date range, by the phrase that
\* sets it last ("" when none does)
dateRangeFilter(text) ==
  IF includes(text, textOf(<< "this", "month" >>)) THEN "first of this month"
  ELSE IF includes(text, textOf(<< "last", "week" >>)) THEN "seven days ago"
  ELSE ""

\* A keyword table with an entry for "food"
typeKeywordsWithFood ==
  << [ keyword |-> "temple", type |-> "culture" ], [ keyword |-> "restaurant", type |-> "food" ], [ keyword |-> "museum", type |-> "culture" ],
     [ keyword |-> "hotel", type |-> "accommodation" ], [ keyword |-> "flight", type |-> "transport" ],
     [ keyword |-> "food", type |-> "food" ] >>

\* part_011 lines 250-256
typeKeywords ==
  << [ keyword |-> "temple", type |-> "culture" ], [ keyword |-> "restaurant", type |-> "food" ], [ keyword |-> "museum", type |-> "culture" ],
     [ keyword |-> "hotel", type |-> "accommodation" ], [ keyword |-> "flight", type |-> "transport" ] >>

\* part_011 lines 258-262: the type of the last keyword of the table the text
\* includes ("" when it includes none)
typeFilter(text) ==
  LET has(e) == includes(text, Spell(e.keyword))
      hits == SelectSeq(typeKeywords, has)
  IN  IF hits = << >> THEN "" ELSE hits[Len(hits)].type

\* part_011 lines 213-265.  filters.location and filters.person: the first
\* place and the first person, as a list of at most one entry
extractFilters(q) ==
  LET text == lowerCase(textOf(q))
  IN  [ location |-> Take(extractPlaces(q), 1),
        person |-> Take(extractPeople(q), 1),
        amount |-> amountFilter(text),
        dateRange |-> dateRangeFilter(text),
        type |-> typeFilter(text) ]

parseSearchQuery(q) ==
  [ originalQuery |-> q,
    people |-> extractPeople(q),
    places |-> extractPlaces(q),
    searchTerms |-> extractSearchTerms(q),
    filters |-> extractFilters(q) ]

\* part_011 lines 40-53: the entities of a text.  Organizations, money and
\* dates are what the tagging library reports and are left out.
extractEntities(q) ==
  [ people |-> extractPeople(q),
    places |-> extractPlaces(q),
    topics |-> extractTopics(q),
    sentiment |-> analyzeSentiment(q),
    categories |-> categorizeContent(q) ]

MaxTags == 10

\* type left undefined
NoType == "<undefined>"

\* A cut that keeps everything
sliceAll(tags, n) == tags

\* .slice(0, 10)
sliceTags(tags, n) == Take(tags, n)

\* part_011 lines 69-95: the nouns of 3 to 19 characters in lower case, the
\* topics, the type, the categories; a Set keeps the first occurrence of
\* each; the first 10
generateTags(q, type) ==
  LET isNoun(w) == w \in Nouns /\ Len(Spell(bare(w))) > 2 /\ Len(Spell(bare(w))) < 20
      text(w) == toLowerCase(bare(w))
      nouns == MapSeq(SelectSeq(q, isNoun), text)
      typeTag == IF type = NoType \/ type = "" THEN << >> ELSE << type >>
  IN  sliceTags(Dedup(nouns \o extractTopics(q) \o typeTag \o categorizeContent(q)), MaxTags)

\* ---------------------------------------------------------------- snippets
SnippetLength == 150
Ellipsis == << ".", ".", "." >>

\* The k-th smallest member of a set of numbers
Nth(set, k) == CHOOSE p \in set : Cardinality({ x \in set : x < p }) = k - 1

\* String.prototype.split(' '): the pieces between two separators, the empty
\* ones too
split(text, sep) ==
  LET at == { i \in 1..Len(text) : text[i] = sep }
      from == { 0 } \cup at
      to == at \cup { Len(text) + 1 }
  IN  [ k \in 1..(Cardinality(at) + 1) |-> SubSeq(text, Nth(from, k) + 1, Nth(to, k) - 1) ]

Terminators == { ".", "!", "?" }

\* content.split(/[.!?]+/): a run of terminators separates two sentences
splitSentences(text) ==
  LET isEnd(i) == i >= 1 /\ i <= Len(text) /\ text[i] \in Terminators
      runStarts == { i \in 1..Len(text) : isEnd(i) /\ ~isEnd(i - 1) }
      runEnds == { i \in 1..Len(text) : isEnd(i) /\ ~isEnd(i + 1) }
      from == { 0 } \cup runEnds
      to == runStarts \cup { Len(text) + 1 }
  IN  [ k \in 1..(Cardinality(runStarts) + 1) |->
          SubSeq(text, Nth(from, k) + 1, Nth(to, k) - 1) ]

\* String.prototype.trim
trim(text) ==
  LET kept == { i \in 1..Len(text) : text[i] # " " }
      first == CHOOSE i \in kept : \A j \in kept : i <= j
      last == CHOOSE i \in kept : \A j \in kept : j <= i
  IN  IF kept = {} THEN << >> ELSE SubSeq(text, first, last)

\* A substring that cuts nothing
substringAll(text, n) == text

\* .substring(0, n)
substring(text, n) == Take(text, n)

\* A record as generateSnippet reads it; an empty text is a field that is
\* missing or ''
Item(description, content, title, name) ==
  [ description |-> description, content |-> content, title |-> title, name |-> name ]

\* Line 284: item.description || item.content || item.title || item.name || ''
snippetSource(item) ==
  IF item.description # << >> THEN item.description
  ELSE IF item.content # << >> THEN item.content
  ELSE IF item.title # << >> THEN item.title
  ELSE item.name

\* Lines 293-295: the words of the query the sentence includes
matchCount(sentence, queryWords) ==
  Cardinality({ i \in 1..Len(queryWords) : includes(lowerCase(sentence), queryWords[i]) })

\* Lines 285-301: the first of the sentences with the most query words, ''
\* when no sentence has any
bestSentence(item, query) ==
  LET queryWords == split(lowerCase(query), " ")
      sentences == splitSentences(snippetSource(item))
      RECURSIVE go(_, _, _)
      go(i, best, maxMatches) ==
        IF i > Len(sentences) THEN best
        ELSE LET matches == matchCount(sentences[i], queryWords)
             IN  IF matches > maxMatches THEN go(i + 1, sentences[i], matches)
                 ELSE go(i + 1, best, maxMatches)
  IN  go(1, << >>, 0)

\* Lines 283-304
generateSnippet(item, query) ==
  LET best == bestSentence(item, query)
  IN  substring(trim(best), SnippetLength)
        \o (IF Len(best) > SnippetLength THEN Ellipsis ELSE << >>)

\* ---------------------------------------------------------- record store
\* A record: its id, the lower-case words of its title, its creation time and
\* the _type field it was stored with ("" when it has none).
Rec(id, words, at) == [ id |-> id, words |-> words, at |-> at, type |-> "" ]

\* The content of the record store, collection by collection, in key order.
\* The journal entry was stored with a _type field of its own.
StoreContent ==
  [ s \in StoreNames |->
      CASE s = "travelPins" ->
             << Rec("1", { "temple", "la" }, 1), Rec("2", { "quickly", "go" }, 2),
                Rec("3", { "quickly", "it" }, 3) >>
        [] s = "people" ->
             << Rec("1", { "will", "la" }, 4), Rec("2", { "quickly", "in", "it" }, 5) >>
        [] s = "journalEntries" ->
             << [ Rec("1", { "quickly", "will" }, 6) EXCEPT !.type = "people" ] >>
        [] s = "expenses" -> << Rec("1", { "go" }, 7) >>
        [] OTHER -> << >> ]

\* A spread after the tag: the _type a record was stored with is kept
processedItemsSpreadLast(items, storeName) ==
  [ i \in 1..Len(items) |->
      [ type |-> IF items[i].type # "" THEN items[i].type ELSE storeName,
        id |-> items[i].id, words |-> items[i].words, at |-> items[i].at ] ]

\* Lines 163-167, processedItems: { ...item, _type: storeName }, every record
\* tagged with the collection it was read from, whatever _type it was stored with
processedItems(items, storeName) ==
  [ i \in 1..Len(items) |->
      [ type |-> storeName, id |-> items[i].id, words |-> items[i].words,
        at |-> items[i].at ] ]

\* ------------------------------------------------------------ ordered map
\* A JavaScript Map keyed by `${type}-${id}`: entries in insertion order; a set
\* on a key that is present replaces the value in place.
MapIndex(m, type, id) ==
  LET hits == { i \in 1..Len(m) : m[i].type = type /\ m[i].id = id }
  IN  IF hits = {} THEN 0 ELSE CHOOSE i \in hits : TRUE

MapHas(m, type, id) == MapIndex(m, type, id) # 0
MapGet(m, type, id) == m[MapIndex(m, type, id)]

MapSet(m, item) ==
  IF MapHas(m, item.type, item.id)
    THEN [ m EXCEPT ![MapIndex(m, item.type, item.id)] = item ]
    ELSE Append(m, item)

\* this.fuseInstances: a Map from collection name to the items of its Fuse
\* instance, in insertion order
FuseHas(fi, name) == \E i \in 1..Len(fi) : fi[i].name = name

\* A map that adds an entry on every set
FuseAppend(fi, name, items) == Append(fi, [ name |-> name, items |-> items ])

FuseSet(fi, name, items) ==
  IF FuseHas(fi, name)
    THEN [ i \in 1..Len(fi) |->
             IF fi[i].name = name THEN [ name |-> name, items |-> items ] ELSE fi[i] ]
    ELSE Append(fi, [ name |-> name, items |-> items ])

\* -------------------------------------------------------------- Fuse.js
\* The distance Fuse reports for an item (0 is a perfect match): a word of
\* the query missing from the item costs 0.3; an item that shares no word with
\* the query does not match.  Comparison ignores case.
MissPenalty == Mul(Unit, 3)
NoMatch == 0 - 1

FuseDistance(q, item) ==
  LET pat == { toLowerCase(q[i]) : i \in 1..Len(q) }
  IN  IF pat \cap item.words = {} THEN NoMatch
      ELSE Cardinality(pat \ item.words) * MissPenalty

\* Stable insertion of x into a list ordered by Before
InsertSorted(sorted, x, Before(_, _)) ==
  LET k == Cardinality({ i \in 1..Len(sorted) : ~Before(x, sorted[i]) })
  IN  SubSeq(sorted, 1, k) \o << x >> \o SubSeq(sorted, k + 1, Len(sorted))

SortBy(seq, Before(_, _)) ==
  LET RECURSIVE go(_, _)
      go(i, acc) ==
        IF i > Len(seq) THEN acc ELSE go(i + 1, InsertSorted(acc, seq[i], Before))
  IN  go(1, << >>)

\* fuseInstance.search(query, { limit }): the matches within Fuse's own
\* threshold, best first, cut to limit
FuseSearch(items, q, limit) ==
  LET scored == [ i \in 1..Len(items) |->
                    [ item |-> items[i], score |-> FuseDistance(q, items[i]) ] ]
      ok(r) == r.score # NoMatch /\ r.score <= FuseThreshold
      closer(a, b) == a.score < b.score
  IN  Take(SortBy(SelectSeq(scored, ok), closer), limit)

\* ------------------------------------------------- search: the pure parts
\* A scored result: the record's collection and id, its _score and its
\* _matchedFields.
Result(type, id, score, matched) ==
  [ type |-> type, id |-> id, score |-> score, matched |-> matched ]

\* The keys Fuse reports as matched (includeMatches)
MatchedKeys == << "title", "searchableText" >>

\* Lines 78-90: the matches of one collection enter the result map
fuzzyCollection(results, name, hits, threshold) ==
  LET RECURSIVE go(_, _)
      go(i, acc) ==
        IF i > Len(hits) THEN acc
        ELSE LET id == hits[i].item.id
                 score == Unit - hits[i].score
             IN  IF score >= threshold
                    /\ (~MapHas(acc, name, id) \/ MapGet(acc, name, id).score < score)
                   THEN go(i + 1, MapSet(acc, Result(name, id, Mul(score, 8), MatchedKeys)))
                   ELSE go(i + 1, acc)
  IN  go(1, results)

\* A filter that lets every collection through
includesAnyModule(modules, name) == TRUE

\* Lines 75 and 139: !modules || modules.includes(name)
includesModule(modules, name) == modules = NoModules \/ name \in modules

\* Lines 74-91: the fuzzy tier over the Fuse instances present right now
fuzzyTier(fi, q, modules, limit, threshold) ==
  LET RECURSIVE go(_, _)
      go(i, acc) ==
        IF i > Len(fi) THEN acc
        ELSE IF ~includesModule(modules, fi[i].name) THEN go(i + 1, acc)
        ELSE go(i + 1,
                fuzzyCollection(acc, fi[i].name,
                                FuseSearch(fi[i].items, q, limit), threshold))
  IN  go(1, << >>)

\* A rescaling that divides by the factor
rescoreByDivision(list, tenths, tag) ==
  [ i \in 1..Len(list) |->
      Result(list[i].type, list[i].id, (list[i].score * 10) \div tenths,
             Append(list[i].matched, tag)) ]

\* results.push({...result, _score: result._score * f, _matchedFields: [..., tag]})
rescore(list, tenths, tag) ==
  [ i \in 1..Len(list) |->
      Result(list[i].type, list[i].id, Mul(list[i].score, tenths),
             Append(list[i].matched, tag)) ]

\* A merge in which the last candidate of a key replaces the entry
mergeLastWins(results, list) ==
  LET RECURSIVE go(_, _)
      go(i, acc) == IF i > Len(list) THEN acc ELSE go(i + 1, MapSet(acc, list[i]))
  IN  go(1, results)

\* A merge in which the first candidate of a key stays
mergeFirstWins(results, list) ==
  LET RECURSIVE go(_, _)
      go(i, acc) ==
        IF i > Len(list) THEN acc
        ELSE IF MapHas(acc, list[i].type, list[i].id) THEN go(i + 1, acc)
        ELSE go(i + 1, MapSet(acc, list[i]))
  IN  go(1, results)

\* Lines 95-100 and 131-136: a candidate replaces the entry of its key when it
\* scores higher
mergeByMaxScore(results, list) ==
  LET RECURSIVE go(_, _)
      go(i, acc) ==
        IF i > Len(list) THEN acc
        ELSE IF ~MapHas(acc, list[i].type, list[i].id)
                \/ MapGet(acc, list[i].type, list[i].id).score < list[i].score
          THEN go(i + 1, MapSet(acc, list[i]))
          ELSE go(i + 1, acc)
  IN  go(1, results)

\* A comparator that puts the lowest score first
lowerScore(a, b) == a.score < b.score

\* .sort((a, b) => b._score - a._score)
higherScore(a, b) == a.score > b.score

\* A search that forgets to cut its list
sliceNothing(list, limit) == list

\* .slice(0, limit)
slice(list, limit) == Take(list, limit)

\* Lines 103-105
sortAndSlice(results, limit) == slice(SortBy(results, higherScore), limit)

\* Lines 130-140
semanticResult(allResults, modules) ==
  LET inModules(r) == includesModule(modules, r.type)
  IN  SortBy(SelectSeq(mergeByMaxScore(<< >>, allResults), inModules), higherScore)

\* The sub-queries of semanticSearch, in the order it issues them
SubQuery(q, modules, limit, tenths, tag) ==
  [ query |-> q, modules |-> modules, limit |-> limit, factor |-> tenths, tag |-> tag ]

semanticWork(q) ==
  LET p == parseSearchQuery(q)
      one(w) == << w >>
      people == [ i \in 1..Len(p.people) |->
                    SubQuery(one(p.people[i]), NoModules, EntityLimit, 7, "people") ]
      places == [ i \in 1..Len(p.places) |->
                    SubQuery(one(p.places[i]), NoModules, EntityLimit, 7, "places") ]
      location == [ i \in 1..Len(p.filters.location) |->
                    SubQuery(one(p.filters.location[i]), NoModules, LocationLimit, 8,
                             "location") ]
      person == [ i \in 1..Len(p.filters.person) |->
                    SubQuery(one(p.filters.person[i]), { "people" }, PersonLimit, 9,
                             "person") ]
  IN  people \o places \o location \o person

\* ------------------------------------------------------------------ state
\* The handleSearch runs followed at once, which are also the callers of the
\* service followed at once.
Runs == { 1, 2 }
Calls == Runs
None == 0 - 1

VARIABLES
  db,               \* record store: collection -> records
  broken,           \* collections whose getAll rejects
  now,              \* Date.now()
  lastIndexUpdate,  \* EnhancedSearchService.lastIndexUpdate
  searchIndex,      \* EnhancedSearchService.searchIndex is not null
  fuseInstances,    \* EnhancedSearchService.fuseInstances
  stack,            \* per caller: the chain of nested service calls in flight
  ret,              \* per caller: the value its call resolved with
  entry,            \* per caller: the call it made
  running,          \* the caller whose continuations are being drained
  query,            \* UniversalSearch: state query
  timer,            \* UniversalSearch: the pending debounce timer's query
  run,              \* UniversalSearch: the handleSearch runs in flight
  results,          \* UniversalSearch: state results
  showResults,      \* UniversalSearch: state showResults
  isSearching,      \* UniversalSearch: state isSearching
  searchMode,       \* UniversalSearch: state searchMode
  resultsOf,        \* the query of the run that set results last
  past,             \* what the calls that have resolved so far did
  applied           \* the function of NLPService or generateSnippet applied last

service == << now, lastIndexUpdate, searchIndex, fuseInstances, stack, ret, entry, running >>
store == << db, broken >>
ui == << query, timer, run, results, showResults, isSearching, searchMode, resultsOf >>
vars == << db, broken, now, lastIndexUpdate, searchIndex, fuseInstances, stack, ret,
           entry, running, query, timer, run, results, showResults,
           isSearching, searchMode, resultsOf, past, applied >>

\* One call of the service in flight: its arguments and where it stands.
\*   pc = "getAll"  buildSearchIndex awaits database.getAll(Stores[idx])
\*   pc = "tiers"   the continuation that runs the retrieval tiers is queued
\*   pc = "nlp"     search awaits the nested search of searchWithNLP
\*   pc = "sub"     semanticSearch awaits the search of a sub-query
\*   pc = "ret"     the call is about to return
\* seen is the content of fuseInstances the fuzzy tier of the call read,
\* fuzzy the candidates that tier kept, acc the candidates the call got from
\* its nested calls; rebuilt tells that the call awaited buildSearchIndex.
Frame(fn, q, modules, limit, threshold, pc) ==
  [ fn |-> fn, query |-> q, modules |-> modules, limit |-> limit,
    threshold |-> threshold, pc |-> pc, idx |-> 1, results |-> << >>,
    work |-> << >>, acc |-> << >>, seen |-> << >>, fuzzy |-> << >>,
    rebuilt |-> (pc = "getAll") ]

NoEntry == [ fn |-> "none", query |-> << >>, modules |-> NoModules, limit |-> 0,
             threshold |-> 0, at |-> 0, built |-> 0, db |-> << >> ]
NoRet == [ status |-> "none", value |-> << >>, fuzzy |-> << >>, others |-> << >>,
           rebuilt |-> FALSE, threw |-> "" ]

\* A call that resolved: the value, the candidates its fuzzy tier kept, the
\* candidates it got from nested calls, whether it rebuilt the index
Resolved(value, fuzzy, others, rebuilt) ==
  [ status |-> "ok", value |-> value, fuzzy |-> fuzzy, others |-> others,
    rebuilt |-> rebuilt, threw |-> "" ]

\* A call that rejected because the Fuse instance of a collection threw
Rejected(name) == [ NoRet EXCEPT !.status = "rejected", !.threw = name ]

\* No search remembered
NoPast == [ fn |-> "none" ]

Idle(c) == stack[c] = << >> /\ ret[c].status = "none"

Top(c) == stack[c][Len(stack[c])]
Below(c) == SubSeq(stack[c], 1, Len(stack[c]) - 1)

\* Line 56: Date.now() - this.lastIndexUpdate > this.indexUpdateInterval
needsRefresh == now - lastIndexUpdate > indexUpdateInterval

\* Lines 45-58 (and 143-162 when the index is stale): search(q, options) is
\* called on top of the frames below and runs to its first await.  A stale
\* index starts buildSearchIndex at once: the FlexSearch document is replaced,
\* the Fuse instances are cleared and the first collection is requested.
enterSearch(c, below, q, modules, limit, threshold) ==
  IF needsRefresh
    THEN /\ searchIndex' = TRUE
         /\ fuseInstances' = << >>
         /\ stack' = [ stack EXCEPT ![c] =
                         Append(below, Frame("search", q, modules, limit, threshold, "getAll")) ]
         /\ running' = None
    ELSE /\ stack' = [ stack EXCEPT ![c] =
                         Append(below, Frame("search", q, modules, limit, threshold, "tiers")) ]
         /\ running' = c
         /\ UNCHANGED << searchIndex, fuseInstances >>

\* Lines 109-127: semanticSearch(q, modules) is called and runs to its first
\* await, the search of its first sub-query; without sub-queries it returns.
enterSemanticSearch(c, q, modules) ==
  LET work == semanticWork(q)
      f == [ Frame("semantic", q, modules, 0, 0, "sub") EXCEPT !.work = work ]
  IN  IF work = << >>
        THEN /\ stack' = [ stack EXCEPT ![c] = << [ f EXCEPT !.pc = "ret" ] >> ]
             /\ running' = c
             /\ UNCHANGED << searchIndex, fuseInstances >>
        ELSE enterSearch(c, << f >>, work[1].query, work[1].modules, work[1].limit,
                         DefaultThreshold)

\* Lines 41-43, 307-310 and 143-162: initialize() and rebuildIndex() start
\* buildSearchIndex whatever the age of the index.
enterBuild(c, fn) ==
  /\ searchIndex' = TRUE
  /\ fuseInstances' = << >>
  /\ stack' = [ stack EXCEPT ![c] = << Frame(fn, << >>, NoModules, 0, 0, "getAll") >> ]
  /\ running' = None
  /\ lastIndexUpdate' = IF fn = "rebuildIndex" THEN 0 ELSE lastIndexUpdate

\* --------------------------------------------------- the service's steps
\* part_010 lines 204-215: database.getAll(storeName) resolves with the
\* records of the collection, read in a readonly transaction.
getAll(d, storeName) == d[storeName]

\* A getAll that empties the collection it read
storeEmptiedByGetAll(d, storeName) == [ d EXCEPT ![storeName] = << >> ]

\* The record store after getAll: a readonly transaction writes nothing
storeAfterGetAll(d, storeName) == d

\* A build whose catch encloses the loop: a failed read ends the loop
nextStoreAbort(idx, failed) == IF failed THEN Len(Stores) + 1 ELSE idx + 1

\* Lines 160-201: the try/catch is inside the loop, which goes on with the
\* next collection whether the read failed or not
nextStore(idx, failed) == idx + 1

\* The Fuse instances buildSearchIndex leaves when nothing else runs
buildAlone(d, br) ==
  LET all == [ i \in 1..Len(Stores) |->
                 [ name |-> Stores[i], items |-> processedItems(d[Stores[i]], Stores[i]) ] ]
      read(e) == e.name \notin br
  IN  SelectSeq(all, read)

\* What search returns on given Fuse instances when nothing else runs
RECURSIVE searchOn(_, _, _, _, _, _)
searchOn(fi, q, modules, limit, threshold, depth) ==
  LET found == fuzzyTier(fi, q, modules, limit, threshold)
      termQuery == parseSearchQuery(q).searchTerms
      nlp == IF termQuery = << >> \/ depth = 0 THEN << >>
             ELSE rescore(searchOn(fi, termQuery, modules, NlpLimit, DefaultThreshold,
                                   depth - 1), 6, "nlp")
  IN  sortAndSlice(mergeByMaxScore(found, nlp), limit)

\* Lines 160-205: database.getAll(Stores[idx]) is answered.  A read that
\* succeeds gives the collection its Fuse instance, one that throws is logged;
\* either way the loop goes on, and after the last collection lastIndexUpdate
\* is set and buildSearchIndex returns to search, or to initialize or
\* rebuildIndex, which resolve.
getAllResolve(c) ==
  /\ running = None
  /\ stack[c] # << >>
  /\ Top(c).pc = "getAll"
  /\ LET f == Top(c)
         name == Stores[f.idx]
         next == nextStore(f.idx, name \in broken)
         read == IF name \in broken THEN past.read
                 ELSE [ past.read EXCEPT ![name] = getAll(db, name) ]
     IN  /\ fuseInstances' =
              IF name \in broken THEN fuseInstances
              ELSE FuseSet(fuseInstances, name, processedItems(getAll(db, name), name))
         /\ db' = storeAfterGetAll(db, name)
         /\ IF next <= Len(Stores)
              THEN /\ stack' = [ stack EXCEPT ![c] = Append(Below(c), [ f EXCEPT !.idx = next ]) ]
                   /\ past' = [ past EXCEPT !.read = read ]
                   /\ UNCHANGED << lastIndexUpdate, running, ret >>
              ELSE /\ lastIndexUpdate' = now
                   /\ running' = c
                   /\ past' = [ past EXCEPT
                                  !.read = read,
                                  !.builtAt = now,
                                  !.initialized = IF f.fn = "initialize" THEN @ + 1 ELSE @ ]
                   /\ IF f.fn = "search"
                        THEN /\ stack' = [ stack EXCEPT ![c] = Append(Below(c), [ f EXCEPT !.pc = "tiers" ]) ]
                             /\ UNCHANGED ret
                        ELSE /\ stack' = [ stack EXCEPT ![c] = << >> ]
                             /\ ret' = [ ret EXCEPT ![c] = Resolved(<< >>, << >>, << >>, TRUE) ]
  /\ UNCHANGED << now, searchIndex, entry, broken, ui, applied >>

\* Lines 60-94: the tiers of search.  The exact tier only logs; the fuzzy tier
\* reads the Fuse instances present now; searchWithNLP (lines 220-226) calls
\* search again on the joined search terms when there are any.
runTiers(c) ==
  /\ running = c
  /\ stack[c] # << >>
  /\ Top(c).pc = "tiers"
  /\ LET f == Top(c)
         found == fuzzyTier(fuseInstances, f.query, f.modules, f.limit, f.threshold)
         g == [ f EXCEPT !.results = found, !.seen = fuseInstances, !.fuzzy = found ]
         termQuery == parseSearchQuery(f.query).searchTerms
     IN  IF termQuery = << >>
           THEN /\ stack' = [ stack EXCEPT ![c] = Append(Below(c), [ g EXCEPT !.pc = "ret" ]) ]
                /\ UNCHANGED << searchIndex, fuseInstances, running >>
           ELSE /\ Len(stack[c]) < MaxDepth
                /\ enterSearch(c, Append(Below(c), [ g EXCEPT !.pc = "nlp" ]), termQuery,
                               f.modules, NlpLimit, DefaultThreshold)
  /\ UNCHANGED << now, lastIndexUpdate, ret, entry, store, applied, past, ui >>

\* Lines 95-105 and 228-237, 245-254, 263-277, 130-140: the call on top
\* returns.  Its caller takes the list: search merges it as the NLP tier's
\* candidates; semanticSearch rescales it, adds it to allResults and goes on
\* with its next sub-query; the outermost call resolves with it.
returnStep(c) ==
  /\ running = c
  /\ stack[c] # << >>
  /\ Top(c).pc = "ret"
  /\ LET f == Top(c)
         value == IF f.fn = "search" THEN sortAndSlice(f.results, f.limit)
                  ELSE semanticResult(f.acc, f.modules)
         below == Below(c)
         p == below[Len(below)]
         rest == SubSeq(below, 1, Len(below) - 1)
         merged == [ p EXCEPT !.results = mergeByMaxScore(p.results, rescore(value, 6, "nlp")),
                              !.acc = rescore(value, 6, "nlp"),
                              !.pc = "ret" ]
         next == [ p EXCEPT !.acc = p.acc \o rescore(value, p.work[1].factor, p.work[1].tag),
                            !.work = Tail(p.work) ]
     IN  IF below = << >>
           THEN /\ stack' = [ stack EXCEPT ![c] = << >> ]
                /\ ret' = [ ret EXCEPT ![c] = Resolved(value, f.fuzzy, f.acc, f.rebuilt) ]
                /\ UNCHANGED << searchIndex, fuseInstances, running >>
           ELSE /\ UNCHANGED ret
                /\ IF p.fn = "search"
                     THEN /\ stack' = [ stack EXCEPT ![c] = Append(rest, merged) ]
                          /\ UNCHANGED << searchIndex, fuseInstances, running >>
                     ELSE IF next.work = << >>
                       THEN /\ stack' = [ stack EXCEPT ![c] = Append(rest, [ next EXCEPT !.pc = "ret" ]) ]
                            /\ UNCHANGED << searchIndex, fuseInstances, running >>
                       ELSE enterSearch(c, Append(rest, next), next.work[1].query,
                                        next.work[1].modules, next.work[1].limit,
                                        DefaultThreshold)
  /\ UNCHANGED << now, lastIndexUpdate, entry, store, applied, past, ui >>

\* Lines 74-91: fuseInstance.search of the collection name throws while the
\* fuzzy tier runs.  No try encloses the loop, nor the awaits of
\* searchWithNLP, searchByEntity, searchByFilters and semanticSearch (lines
\* 94, 115, 121, 126, 226, 244, 262, 272): the promise of every call of the
\* chain rejects, down to the outermost one.
fuseThrows(c, name) ==
  /\ running = c
  /\ stack[c] # << >>
  /\ Top(c).pc = "tiers"
  /\ FuseHas(fuseInstances, name)
  /\ includesModule(Top(c).modules, name)
  /\ stack' = [ stack EXCEPT ![c] = << >> ]
  /\ ret' = [ ret EXCEPT ![c] = Rejected(name) ]
  /\ UNCHANGED << now, lastIndexUpdate, searchIndex, fuseInstances, running, entry,
                  store, applied, past, ui >>

\* Time passes between two tasks.
tick ==
  /\ running = None
  /\ now < StartTime + MaxTicks * TickMs
  /\ now' = now + TickMs
  /\ UNCHANGED << lastIndexUpdate, searchIndex, fuseInstances, stack, ret, entry,
                  running, store, applied, past, ui >>

\* ------------------------------------------------- calls from any caller
QueryInputs ==
  { << >>, << "it" >>, << "temple" >>, << "Will" >>, << "quickly", "go" >>,
    << "quickly", "it" >>, << "quickly", "in", "it" >>, << "quickly", "in", "LA" >>,
    << "go", "with", "Will" >> }

Options(modules, limit, threshold) ==
  [ modules |-> modules, limit |-> limit, threshold |-> threshold ]

OptionInputs ==
  { Options(NoModules, DefaultLimit, DefaultThreshold),
    Options(NoModules, 2, DefaultThreshold),
    Options({ "people", "hotels" }, DefaultLimit, Mul(Unit, 6)),
    Options({ "hotels" }, DefaultLimit, DefaultThreshold) }

\* A call as its caller made it: the arguments, and for later comparison
\* Date.now() at the call, the time of the last completed build and the
\* content of the record store.
Entry(fn, q, modules, limit, threshold) ==
  [ fn |-> fn, query |-> q, modules |-> modules, limit |-> limit, threshold |-> threshold,
    at |-> now, built |-> past.builtAt, db |-> db ]

callSearch(c, q, o) ==
  /\ running = None
  /\ Idle(c)
  /\ entry' = [ entry EXCEPT ![c] = Entry("search", q, o.modules, o.limit, o.threshold) ]
  /\ enterSearch(c, << >>, q, o.modules, o.limit, o.threshold)
  /\ UNCHANGED << now, lastIndexUpdate, ret, store, applied, past, ui >>

callSemanticSearch(c, q, modules) ==
  /\ running = None
  /\ Idle(c)
  /\ entry' = [ entry EXCEPT ![c] = Entry("semantic", q, modules, 0, 0) ]
  /\ enterSemanticSearch(c, q, modules)
  /\ UNCHANGED << now, lastIndexUpdate, ret, store, applied, past, ui >>

callBuild(c, fn) ==
  /\ running = None
  /\ Idle(c)
  /\ past.builds < MaxBuilds
  /\ past' = [ past EXCEPT !.builds = @ + 1 ]
  /\ entry' = [ entry EXCEPT ![c] = Entry(fn, << >>, NoModules, 0, 0) ]
  /\ enterBuild(c, fn)
  /\ UNCHANGED << now, ret, store, applied, ui >>

\* The caller's continuation takes the resolved value.
collect(c) ==
  /\ running = c
  /\ stack[c] = << >>
  /\ ret[c].status = "ok"
  /\ ret' = [ ret EXCEPT ![c] = NoRet ]
  /\ entry' = [ entry EXCEPT ![c] = NoEntry ]
  /\ running' = None
  /\ UNCHANGED << now, lastIndexUpdate, searchIndex, fuseInstances, stack, store, applied, past, ui >>

\* ------------------------------------------------------------------- Init
BrokenChoices == { {}, { "people" } }

\* Nothing has resolved yet: no call of initialize or rebuildIndex made, no
\* initialize resolved, no build completed, no search remembered, no
\* collection read.
NoneYet == [ builds |-> 0, initialized |-> 0, builtAt |-> 0, search |-> NoPast,
             ended |-> {}, read |-> [ s \in StoreNames |-> << >> ] ]

\* No function applied yet
NothingApplied == [ fn |-> "none", args |-> << >>, value |-> << >> ]

\* One run of handleSearch: the query it closed over and where it stands.
\*   pc = "basic"     awaits database.universalSearch (line 105)
\*   pc = "fallback"  awaits database.universalSearch in the catch (line 129)
\*   pc = "first"     awaits semanticSearch or search (lines 97, 101)
\*   pc = "ai"        awaits aiService.enhancedSearch (line 111)
\*   pc = "second"    awaits the search on the enrichment's terms (line 113)
\*   pc = "show"      is about to set the results (line 123)
\* local is searchResults after the first pass, second the list of the second
\* pass, shown the list line 123 sets; aiCalls, aiContext and aiOutcome record
\* the enrichment calls made, the context sent and the answer; failed names
\* the awaits of the run that threw ("first", "enrichment", "second",
\* "fallback").
IdleRun == [ pc |-> "idle", query |-> << >>, mode |-> "basic", local |-> << >>,
             second |-> << >>, secondDone |-> FALSE, shown |-> << >>, aiCalls |-> 0,
             aiContext |-> << >>, aiOutcome |-> "none", failed |-> {} ]

Init ==
  /\ db = StoreContent
  /\ broken \in BrokenChoices
  /\ now = StartTime
  /\ lastIndexUpdate = 0
  /\ searchIndex = FALSE
  /\ fuseInstances = << >>
  /\ stack = [ c \in Calls |-> << >> ]
  /\ ret = [ c \in Calls |-> NoRet ]
  /\ entry = [ c \in Calls |-> NoEntry ]
  /\ running = None
  /\ query = << >>
  /\ timer = << >>
  /\ run = [ h \in Runs |-> IdleRun ]
  /\ results = << >>
  /\ showResults = FALSE
  /\ isSearching = FALSE
  /\ searchMode = "basic"
  /\ resultsOf = << >>
  /\ past = NoneYet
  /\ applied = NothingApplied

serviceStep(c) == getAllResolve(c) \/ runTiers(c) \/ returnStep(c)

\* One caller after another: every entry point, every input.
Next ==
  \/ \E q \in QueryInputs, o \in OptionInputs : callSearch(1, q, o)
  \/ \E q \in QueryInputs, m \in { NoModules, { "people" } } : callSemanticSearch(1, q, m)
  \/ \E fn \in { "initialize", "rebuildIndex" } : callBuild(1, fn)
  \/ collect(1)
  \/ serviceStep(1)
  \/ tick

Spec == Init /\ [][Next]_vars

\* Two callers whose calls overlap.
OverlapQueries == { << "it" >>, << "quickly", "go" >> }
DefaultOptions == Options(NoModules, DefaultLimit, DefaultThreshold)

InitOverlap == Init /\ broken = {}

NextOverlap ==
  \/ \E c \in Runs, q \in OverlapQueries : callSearch(c, q, DefaultOptions)
  \/ \E c \in Runs, fn \in { "initialize", "rebuildIndex" } : callBuild(c, fn)
  \/ \E c \in Runs : collect(c)
  \/ \E c \in Runs : serviceStep(c)

SpecOverlap == InitOverlap /\ [][NextOverlap]_vars

\* ------------------------------------------- a record store that changes
\* part_010 lines 180-241: the application adds, updates and deletes records
\* (add, update, delete).  The contents the record store goes through: a
\* travel pin is added, then a person is deleted.
StoreVersions ==
  LET added == [ StoreContent EXCEPT
                   !["travelPins"] = Append(@, Rec("4", { "quickly" }, 8)) ]
      kept(r) == r.id # "2"
      deleted == [ added EXCEPT !["people"] = SelectSeq(@, kept) ]
  IN  << StoreContent, added, deleted >>

writeStore ==
  /\ running = None
  /\ \E k \in 1..(Len(StoreVersions) - 1) :
       /\ db = StoreVersions[k]
       /\ db' = StoreVersions[k + 1]
  /\ UNCHANGED << broken, service, ui, past, applied >>

\* What is kept of a search that resolved: the call, the list, the value of
\* lastIndexUpdate and the number of initialize and rebuildIndex calls so far
Remembered(call, value) ==
  [ fn |-> call.fn, call |-> call, value |-> value, indexAt |-> lastIndexUpdate,
    builds |-> past.builds ]

\* The caller's continuation takes the resolved value and keeps the list of a
\* search to compare the next one with.
remember(c) ==
  /\ running = c
  /\ stack[c] = << >>
  /\ ret[c].status = "ok"
  /\ past' = IF entry[c].fn = "search"
               THEN [ past EXCEPT !.search = Remembered(entry[c], ret[c].value) ]
               ELSE past
  /\ ret' = [ ret EXCEPT ![c] = NoRet ]
  /\ entry' = [ entry EXCEPT ![c] = NoEntry ]
  /\ running' = None
  /\ UNCHANGED << now, lastIndexUpdate, searchIndex, fuseInstances, stack, store, applied, ui >>

StoreQueries == { << "it" >>, << "Will" >>, << "quickly", "it" >> }

\* One caller, one call after another, on a record store that is written to.
NextStore ==
  \/ \E q \in StoreQueries : callSearch(1, q, DefaultOptions)
  \/ callSemanticSearch(1, << "go", "with", "Will" >>, NoModules)
  \/ \E fn \in { "initialize", "rebuildIndex" } : callBuild(1, fn)
  \/ remember(1)
  \/ serviceStep(1)
  \/ tick
  \/ writeStore

SpecStore == Init /\ [][NextStore]_vars

\* ------------------------------------------------------- UniversalSearch
\* part_010 lines 244-293: database.universalSearch on a store that can be
\* read.  A record matches when one word of the lower-cased query is in its
\* text; it scores 3 for each such word in its title; best score first, then
\* newest first.
universalSearch(d, q) ==
  LET terms == { toLowerCase(q[i]) : i \in 1..Len(q) }
      matches(r) == terms \cap r.words # {}
      scored(items, name) ==
        [ i \in 1..Len(items) |->
            [ type |-> name, id |-> items[i].id,
              score |-> 3 * Cardinality(terms \cap items[i].words),
              at |-> items[i].at ] ]
      RECURSIVE all(_)
      all(i) == IF i > Len(Stores) THEN << >>
                ELSE scored(SelectSeq(d[Stores[i]], matches), Stores[i]) \o all(i + 1)
      first(a, b) == a.score > b.score \/ (a.score = b.score /\ a.at > b.at)
      sorted == SortBy(all(1), first)
  IN  [ i \in 1..Len(sorted) |-> Result(sorted[i].type, sorted[i].id, sorted[i].score, << >>) ]

\* Lines 94-106: the search method handleSearch chooses
chooseMode(q) ==
  IF StrLen(q) > 10 /\ HasConnector(q) THEN "semantic"
  ELSE IF StrLen(q) > 5 THEN "fuzzy"
  ELSE "basic"

\* A handleSearch that asks the enrichment client for any query
wantsEnrichmentAlways(q, searchResults) == TRUE

\* Line 109: the condition of the enrichment call
wantsEnrichment(q, searchResults) == StrLen(q) > 8 /\ Len(searchResults) < 5

\* A handleSearch that sends every local candidate
enrichmentContextAll(searchResults) == searchResults

\* Line 111: searchResults.slice(0, 3)
enrichmentContext(searchResults) == Take(searchResults, 3)

\* A handleSearch that takes the second pass whenever it found something
keepBetterNonEmpty(searchResults, enhancedResults) ==
  IF Len(enhancedResults) > 0 THEN enhancedResults ELSE searchResults

\* Lines 114-116
keepBetter(searchResults, enhancedResults) ==
  IF Len(enhancedResults) > Len(searchResults) THEN enhancedResults ELSE searchResults

\* aiAnalysis.searchTerms.join(' ')
join(termList) ==
  LET RECURSIVE go(_)
      go(i) == IF i > Len(termList) THEN << >> ELSE termList[i] \o go(i + 1)
  IN  go(1)

LeastIdleRun ==
  CHOOSE h \in Runs : run[h].pc = "idle" /\ \A g \in Runs : run[g].pc = "idle" => h <= g

\* Line 164: the user changes the query.  Lines 140-142: the effect drops
\* the pending debounce timer and sets one for the new query.
typeQuery(q) ==
  /\ running = None
  /\ q # query
  /\ query' = q
  /\ timer' = << q >>
  /\ UNCHANGED << run, results, showResults, isSearching, searchMode, resultsOf,
                  service, store, applied, past >>

\* Lines 82-106: the debounce timer fires and handleSearch runs to its first
\* await.
timerFires ==
  /\ running = None
  /\ timer # << >>
  /\ \E h \in Runs : run[h].pc = "idle"
  /\ LET q == timer[1]
         h == LeastIdleRun
         mode == chooseMode(q)
         r == [ IdleRun EXCEPT !.query = q, !.mode = mode ]
     IN  /\ timer' = << >>
         /\ IF StrLen(q) < 2
              THEN /\ results' = << >>
                   /\ showResults' = FALSE
                   /\ resultsOf' = q
                   /\ UNCHANGED << run, isSearching, searchMode, service >>
              ELSE /\ isSearching' = TRUE
                   /\ searchMode' = mode
                   /\ UNCHANGED << results, showResults, resultsOf, now, lastIndexUpdate, ret >>
                   /\ CASE mode = "semantic" ->
                             /\ run' = [ run EXCEPT ![h] = [ r EXCEPT !.pc = "first" ] ]
                             /\ entry' = [ entry EXCEPT ![h] = Entry("semantic", q, NoModules, 0, 0) ]
                             /\ enterSemanticSearch(h, q, NoModules)
                        [] mode = "fuzzy" ->
                             /\ run' = [ run EXCEPT ![h] = [ r EXCEPT !.pc = "first" ] ]
                             /\ entry' = [ entry EXCEPT ![h] =
                                             Entry("search", q, NoModules, DefaultLimit, DefaultThreshold) ]
                             /\ enterSearch(h, << >>, q, NoModules, DefaultLimit, DefaultThreshold)
                        [] mode = "basic" ->
                             /\ run' = [ run EXCEPT ![h] = [ r EXCEPT !.pc = "basic" ] ]
                             /\ UNCHANGED << searchIndex, fuseInstances, stack, entry, running >>
  /\ UNCHANGED << query, store, applied, past >>

\* Lines 108-124: handleSearch has its first list.  It either asks the
\* enrichment client, sending the first candidates, or goes on to set results.
afterFirstPass(h, searchResults) ==
  LET r == [ run[h] EXCEPT !.local = searchResults ]
  IN  IF wantsEnrichment(r.query, searchResults)
        THEN /\ run' = [ run EXCEPT ![h] =
                           [ r EXCEPT !.pc = "ai", !.aiCalls = r.aiCalls + 1,
                                      !.aiContext = enrichmentContext(searchResults) ] ]
             /\ running' = None
        ELSE /\ run' = [ run EXCEPT ![h] = [ r EXCEPT !.pc = "show", !.shown = searchResults ] ]
             /\ running' = h

\* Line 105 and 125-129: database.universalSearch is answered.  It rejects
\* when a collection cannot be read, and the catch asks again.
universalSearchResolves(h) ==
  /\ running = None
  /\ run[h].pc = "basic"
  /\ IF broken # {}
       THEN /\ run' = [ run EXCEPT ![h].pc = "fallback", ![h].failed = @ \cup { "first" } ]
            /\ UNCHANGED running
       ELSE afterFirstPass(h, universalSearch(db, run[h].query))
  /\ UNCHANGED << query, timer, results, showResults, isSearching, searchMode, resultsOf,
                  now, lastIndexUpdate, searchIndex, fuseInstances, stack, ret, entry, store, applied, past >>

\* A finally block that leaves isSearching as it is
withoutFinally(searching) == searching

\* Lines 135-137: finally { setIsSearching(false) }
afterFinally(searching) == FALSE

\* What is kept of a run that has ended: the awaits of it that threw
Ended(r) == r.failed \cup { "ended" }

\* Lines 129-137: the fallback search is answered; a fallback that rejects is
\* logged by the inner catch; finally clears isSearching.
fallbackResolves(h) ==
  /\ running = None
  /\ run[h].pc = "fallback"
  /\ IF broken # {}
       THEN /\ UNCHANGED << results, showResults, resultsOf >>
            /\ past' = [ past EXCEPT !.ended = Ended(run[h]) \cup { "fallback" } ]
       ELSE /\ results' = universalSearch(db, run[h].query)
            /\ showResults' = TRUE
            /\ resultsOf' = run[h].query
            /\ past' = [ past EXCEPT !.ended = Ended(run[h]) ]
  /\ isSearching' = afterFinally(isSearching)
  /\ run' = [ run EXCEPT ![h] = IdleRun ]
  /\ UNCHANGED << query, timer, searchMode, service, store, applied >>

\* Lines 97, 101 and 125-129: semanticSearch or search has rejected; the
\* outer catch logs the error and asks database.universalSearch.
firstRejects(h) ==
  /\ running = h
  /\ run[h].pc = "first"
  /\ stack[h] = << >>
  /\ ret[h].status = "rejected"
  /\ ret' = [ ret EXCEPT ![h] = NoRet ]
  /\ entry' = [ entry EXCEPT ![h] = NoEntry ]
  /\ run' = [ run EXCEPT ![h].pc = "fallback", ![h].failed = @ \cup { "first" } ]
  /\ running' = None
  /\ UNCHANGED << query, timer, results, showResults, isSearching, searchMode, resultsOf,
                  now, lastIndexUpdate, searchIndex, fuseInstances, stack, store, applied, past >>

\* Lines 97 and 101: semanticSearch or search has resolved.
firstReturns(h) ==
  /\ running = h
  /\ run[h].pc = "first"
  /\ stack[h] = << >>
  /\ ret[h].status = "ok"
  /\ ret' = [ ret EXCEPT ![h] = NoRet ]
  /\ entry' = [ entry EXCEPT ![h] = NoEntry ]
  /\ afterFirstPass(h, ret[h].value)
  /\ UNCHANGED << query, timer, results, showResults, isSearching, searchMode, resultsOf,
                  now, lastIndexUpdate, searchIndex, fuseInstances, stack, store, applied, past >>

\* image-processing.ts lines 595-620: what aiService.enhancedSearch resolves
\* with.  A network error, a status that is not ok and a body that is not
\* JSON give the fallback { searchTerms: [query] }; a body with success gives
\* the body; a body without success gives its fallback member, here undefined.
Answer(outcome, terms) == [ outcome |-> outcome, terms |-> terms ]

Failures == { "networkError", "notOk", "badJson" }

AiAnswers ==
  { Answer(o, << >>) : o \in Failures \cup { "noFallback" } }
    \cup { Answer("success", t) :
             t \in { << >>, << << "go" >> >>, << << "quickly" >>, << "go" >> >> } }

enhancedSearch(q, answer) ==
  CASE answer.outcome \in Failures -> [ defined |-> TRUE, searchTerms |-> << q >> ]
    [] answer.outcome = "success" -> [ defined |-> TRUE, searchTerms |-> answer.terms ]
    [] OTHER -> [ defined |-> FALSE, searchTerms |-> << >> ]

\* Lines 111-121: the enrichment call has resolved.  With search terms the
\* second pass starts; reading searchTerms of undefined throws into the
\* inner catch, which keeps the list.
enrichmentAnswers(h, answer) ==
  /\ running = None
  /\ run[h].pc = "ai"
  /\ LET r == [ run[h] EXCEPT !.aiOutcome = answer.outcome ]
         aiAnalysis == enhancedSearch(r.query, answer)
     IN  IF aiAnalysis.defined /\ Len(aiAnalysis.searchTerms) > 0
           THEN /\ run' = [ run EXCEPT ![h] = [ r EXCEPT !.pc = "second" ] ]
                /\ entry' = [ entry EXCEPT ![h] =
                                Entry("search", join(aiAnalysis.searchTerms), NoModules,
                                      DefaultLimit, DefaultThreshold) ]
                /\ enterSearch(h, << >>, join(aiAnalysis.searchTerms), NoModules,
                               DefaultLimit, DefaultThreshold)
           ELSE /\ run' = [ run EXCEPT ![h] =
                              [ r EXCEPT !.pc = "show", !.shown = r.local,
                                         !.failed = IF aiAnalysis.defined THEN @
                                                    ELSE @ \cup { "enrichment" } ] ]
                /\ running' = h
                /\ UNCHANGED << searchIndex, fuseInstances, stack, entry >>
  /\ UNCHANGED << query, timer, results, showResults, isSearching, searchMode, resultsOf,
                  now, lastIndexUpdate, ret, store, applied, past >>

\* Lines 113-117: the second pass has resolved.
secondReturns(h) ==
  /\ running = h
  /\ run[h].pc = "second"
  /\ stack[h] = << >>
  /\ ret[h].status = "ok"
  /\ ret' = [ ret EXCEPT ![h] = NoRet ]
  /\ entry' = [ entry EXCEPT ![h] = NoEntry ]
  /\ run' = [ run EXCEPT ![h] =
                [ run[h] EXCEPT !.pc = "show", !.second = ret[h].value, !.secondDone = TRUE,
                                !.shown = keepBetter(run[h].local, ret[h].value) ] ]
  /\ UNCHANGED << query, timer, results, showResults, isSearching, searchMode, resultsOf,
                  now, lastIndexUpdate, searchIndex, fuseInstances, stack, running, store, applied, past >>

\* Lines 113 and 118-120: the second pass has rejected; the inner catch logs
\* it and the run goes on with the list it has.
secondRejects(h) ==
  /\ running = h
  /\ run[h].pc = "second"
  /\ stack[h] = << >>
  /\ ret[h].status = "rejected"
  /\ ret' = [ ret EXCEPT ![h] = NoRet ]
  /\ entry' = [ entry EXCEPT ![h] = NoEntry ]
  /\ run' = [ run EXCEPT ![h] =
                [ run[h] EXCEPT !.pc = "show", !.shown = run[h].local,
                                !.failed = @ \cup { "second" } ] ]
  /\ UNCHANGED << query, timer, results, showResults, isSearching, searchMode, resultsOf,
                  now, lastIndexUpdate, searchIndex, fuseInstances, stack, running, store, applied, past >>

\* Lines 123-124 and 135-137: the run sets results and ends.
showStep(h) ==
  /\ running = h
  /\ run[h].pc = "show"
  /\ results' = run[h].shown
  /\ showResults' = TRUE
  /\ resultsOf' = run[h].query
  /\ isSearching' = afterFinally(isSearching)
  /\ run' = [ run EXCEPT ![h] = IdleRun ]
  /\ running' = None
  /\ past' = [ past EXCEPT !.ended = Ended(run[h]) ]
  /\ UNCHANGED << query, timer, searchMode, now, lastIndexUpdate, searchIndex,
                  fuseInstances, stack, ret, entry, store, applied >>

\* The component some time after it was mounted: initialize() (line 78) has
\* resolved, the index is fresh, and the debounce timer of the first render
\* is pending.
InitUI ==
  /\ db = StoreContent
  /\ broken \in BrokenChoices
  /\ now = StartTime
  /\ lastIndexUpdate = StartTime
  /\ searchIndex = TRUE
  /\ fuseInstances = buildAlone(db, broken)
  /\ stack = [ c \in Calls |-> << >> ]
  /\ ret = [ c \in Calls |-> NoRet ]
  /\ entry = [ c \in Calls |-> NoEntry ]
  /\ running = None
  /\ query = << >>
  /\ timer = << << >> >>
  /\ run = [ h \in Runs |-> IdleRun ]
  /\ results = << >>
  /\ showResults = FALSE
  /\ isSearching = FALSE
  /\ searchMode = "basic"
  /\ resultsOf = << >>
  /\ past = [ NoneYet EXCEPT !.builds = 1, !.initialized = 1, !.builtAt = StartTime ]
  /\ applied = NothingApplied

UiQueries ==
  { << >>, << "it" >>, << "quickly", "it" >>, << "quickly", "go" >>,
    << "quickly", "in", "it" >>, << "quickly", "in", "LA" >> }

runStep(h) ==
  \/ universalSearchResolves(h)
  \/ fallbackResolves(h)
  \/ firstReturns(h)
  \/ secondReturns(h)
  \/ showStep(h)
  \/ runTiers(h)
  \/ returnStep(h)

NextUI ==
  \/ \E q \in UiQueries : typeQuery(q)
  \/ timerFires
  \/ \E h \in Runs : runStep(h)
  \/ \E h \in Runs, a \in AiAnswers : enrichmentAnswers(h, a)

SpecUI == InitUI /\ [][NextUI]_vars

\* The collections whose Fuse instance is let throw
Throwing == { "people", "expenses" }

\* UniversalSearch on a service whose fuzzy-match library can throw.
NextFault ==
  \/ NextUI
  \/ \E h \in Runs, name \in Throwing : fuseThrows(h, name)
  \/ \E h \in Runs : firstRejects(h) \/ secondRejects(h)

SpecFault == InitUI /\ [][NextFault]_vars

\* ------------------------------------------- NLPService and the snippets
\* The texts the functions of NLPService are applied to
TextInputs ==
  { << >>,
    << "find", "cheap", "food" >>,
    << "cheap", "expensive", "hotel" >>,
    << "costly", "restaurant" >>,
    << "Budget", "flight" >>,
    << "expensive", "temple", "museum" >>,
    << "I", "had", "an", "amazing", "dinner", "in", "Paris", "with", "Maria,", "cost", "$45.50", "on", "12/05/2024" >>,
    << "great", "great", "bad" >>,
    << "amazing", "bad" >>,
    << "bad", "sad", "great" >>,
    << "Visited", "an", "ancient", "temple", "museum", "in", "the", "mountains" >>,
    << "temple", "museum", "mountains", "beach", "forest", "park", "market", "hotel", "flight", "restaurant", "bus" >>,
    << "love", "badge" >>,
    << "last", "week", "trip" >>,
    << "this", "month", "budget", "costly" >>,
    << "terrible", "awful", "meal" >>,
    << "wonderful", "beach", "hiking" >>,
    << "quickly", "go" >>,
    << "Will" >>,
    << "hotel", "flight", "temple" >> }

TypeInputs == { NoType, "journal", "food" }

\* The records generateSnippet is applied to.  long is a sentence of 175
\* characters with the word temple, filler one of 176 without it, padded one
\* of 150 after a blank.
ItemInputs ==
  LET repeat(text, n) == [ i \in 1..(n * Len(text)) |-> text[((i - 1) % Len(text)) + 1] ]
      long == repeat(Spell("temple") \o << " " >>, 25)
      filler == repeat(Spell("quickly") \o << " " >>, 22)
      padded == << " " >> \o repeat(Spell("go"), 75)
  IN  { Item(textOf(<< "Nice", "temple" >>), << >>, << >>, << >>),
        Item(textOf(<< "Old", "temple" >>) \o << ".", " " >> \o filler, << >>, << >>, << >>),
        Item(long, << >>, textOf(<< "temple" >>), << >>),
        Item(<< >>, filler \o << "!", "?", " " >> \o textOf(<< "go", "with", "Will" >>),
             << >>, << >>),
        Item(<< >>, << >>, << >>, textOf(<< "Will" >>)),
        Item(padded, << >>, << >>, << >>) }

SnippetQueries ==
  { << >>, textOf(<< "temple" >>), textOf(<< "Will", "go" >>), textOf(<< "beach" >>) }

Applied(fn, args, value) == [ fn |-> fn, args |-> args, value |-> value ]

applyParseSearchQuery(q) ==
  /\ applied' = Applied("parseSearchQuery", << q >>, parseSearchQuery(q))
  /\ UNCHANGED << service, store, ui, past >>

applyExtractEntities(q) ==
  /\ applied' = Applied("extractEntities", << q >>, extractEntities(q))
  /\ UNCHANGED << service, store, ui, past >>

applyGenerateTags(q, type) ==
  /\ applied' = Applied("generateTags", << q, type >>, generateTags(q, type))
  /\ UNCHANGED << service, store, ui, past >>

applyGenerateSnippet(item, q) ==
  /\ applied' = Applied("generateSnippet", << item, q >>, generateSnippet(item, q))
  /\ UNCHANGED << service, store, ui, past >>

InitText == Init /\ broken = {}

NextText ==
  \/ \E q \in TextInputs : applyParseSearchQuery(q)
  \/ \E q \in TextInputs : applyExtractEntities(q)
  \/ \E q \in TextInputs, type \in TypeInputs : applyGenerateTags(q, type)
  \/ \E item \in ItemInputs, q \in SnippetQueries : applyGenerateSnippet(item, q)

SpecText == InitText /\ [][NextText]_vars

\* ================================================================ claims
Building == \E c \in Calls : \E i \in 1..Len(stack[c]) : stack[c][i].pc = "getAll"

Returned(c, fn) == ret[c].status = "ok" /\ entry[c].fn = fn

DistinctKeys(list) ==
  \A i, j \in 1..Len(list) :
    (list[i].type = list[j].type /\ list[i].id = list[j].id) => i = j

\* C1: the list search returns has at most options.limit entries and no two
\* entries with the same collection and record id.
C1_AtMostLimitNoDuplicates ==
  \A c \in Calls :
    Returned(c, "search") =>
      /\ Len(ret[c].value) <= entry[c].limit
      /\ DistinctKeys(ret[c].value)

\* C1 witness: a search with limit 2 returned 2 of the 5 records that match.
C1_Witness ==
  \E c \in Calls :
    /\ Returned(c, "search")
    /\ entry[c].query = << "quickly", "go" >>
    /\ entry[c].limit = 2
    /\ Len(ret[c].value) = 2

SameCall(f, g) ==
  /\ f.fn = g.fn /\ f.query = g.query /\ f.modules = g.modules
  /\ f.limit = g.limit /\ f.threshold = g.threshold

\* C2: the chain of nested search calls is finite.  search decides from its
\* arguments alone whether it calls search again, so the chain is finite
\* exactly when no call in it has the arguments of a call it is nested in.
C2_NestedChainFinite ==
  \A c \in Calls :
    \A i, j \in 1..Len(stack[c]) :
      (i < j /\ stack[c][i].fn = "search") => ~SameCall(stack[c][i], stack[c][j])

SameInstances(fi, gi) ==
  { fi[i] : i \in 1..Len(fi) } = { gi[i] : i \in 1..Len(gi) }

RanFuzzyTier(f) == f.fn = "search" /\ f.pc \in { "nlp", "ret" }

\* C3: a fuzzy tier never reads an emptied or partly refilled set of Fuse
\* instances: what it reads is the set a complete build leaves.
C3_ReadersSeeCompleteIndex ==
  \A c \in Calls :
    \A i \in 1..Len(stack[c]) :
      RanFuzzyTier(stack[c][i]) => SameInstances(stack[c][i].seen, buildAlone(db, broken))

\* C4: a search that overlaps another call returns what it returns alone.
C4_OverlapSameAsAlone ==
  \A c \in Calls :
    Returned(c, "search") =>
      ret[c].value = searchOn(buildAlone(db, broken), entry[c].query, entry[c].modules,
                              entry[c].limit, entry[c].threshold, MaxDepth)

\* C6: a read that throws does not stop the rebuild: once buildSearchIndex
\* has returned, lastIndexUpdate is set, every collection whose read succeeds
\* has its Fuse instance, and the failing collection has none and gives no
\* result.
C6_BuildSurvivesReadFailure ==
  /\ (searchIndex /\ ~Building) =>
       /\ lastIndexUpdate > 0
       /\ \A s \in StoreNames : FuseHas(fuseInstances, s) <=> s \notin broken
       /\ SameInstances(fuseInstances, buildAlone(db, broken))
  /\ \A c \in Calls :
       ret[c].status = "ok" =>
         \A i \in 1..Len(ret[c].value) : ret[c].value[i].type \notin broken

\* C6 witness: the people collection cannot be read, the build is over and a
\* search has returned records of other collections.
C6_Witness ==
  /\ broken = { "people" }
  /\ ~Building
  /\ lastIndexUpdate > 0
  /\ \E c \in Calls : Returned(c, "search") /\ Len(ret[c].value) > 0

Quiet == running = None /\ timer = << >> /\ \A h \in Runs : run[h].pc = "idle"

\* C5: the result of a superseded handleSearch is discarded: with every
\* collection readable, once no search is in flight and no debounce timer is
\* pending, the results on display are those computed for the query in the
\* input box.
C5_SupersededResultDiscarded ==
  (Quiet /\ broken = {}) => resultsOf = query

AfterEnrichment(h) == run[h].pc = "show" /\ run[h].aiCalls > 0

\* C7: when the enrichment client fails (network error, status that is not
\* ok, body that is not JSON), the list handleSearch is about to set is the
\* list of the first pass, in content and order.
C7_FailureShowsLocal ==
  \A h \in Runs :
    (AfterEnrichment(h) /\ run[h].aiOutcome \in Failures) => run[h].shown = run[h].local

C9_ReplacedIffStrictlyMore ==
  \A h \in Runs :
    (run[h].pc = "show" /\ run[h].secondDone) =>
      /\ Len(run[h].second) > Len(run[h].local) => run[h].shown = run[h].second
      /\ Len(run[h].second) <= Len(run[h].local) => run[h].shown = run[h].local
      /\ Len(run[h].shown) >= Len(run[h].local)

\* C9 witness: the service answered with terms, the second pass gave fewer
\* results than the first and different ones, and the first list is kept.
C9_Witness ==
  \E h \in Runs :
    /\ run[h].pc = "show"
    /\ run[h].secondDone
    /\ run[h].aiOutcome = "success"
    /\ Len(run[h].second) > 0
    /\ Len(run[h].second) < Len(run[h].local)
    /\ run[h].shown = run[h].local

\* C10: a handleSearch run that waits for the enrichment answer finishes
\* even when the answer never comes: while it waits, the run always has a
\* step of its own (the end of a bounded wait) that takes it on.
C10_WaitIsBounded ==
  \A h \in Runs : run[h].pc = "ai" => ENABLED runStep(h)

\* C11: the list search returns and the list semanticSearch returns are
\* ordered by non-increasing _score.
C11_OrderedByScore ==
  \A c \in Calls :
    ret[c].status = "ok" =>
      \A i, j \in 1..Len(ret[c].value) :
        i < j => ret[c].value[i].score >= ret[c].value[j].score

\* C11 witness: semanticSearch returned records with different scores.
C11_Witness ==
  \E c \in Calls :
    /\ Returned(c, "semantic")
    /\ \E i, j \in 1..Len(ret[c].value) : ret[c].value[i].score > ret[c].value[j].score

\* The call started more than the refresh interval after the last completed
\* index build.
Stale(e) == e.at - e.built > indexUpdateInterval

\* What the search of call e returns on an index built from store content d
AloneOn(d, e) ==
  searchOn(buildAlone(d, broken), e.query, e.modules, e.limit, e.threshold, MaxDepth)

\* C12: a search started more than 5 minutes after the last completed index
\* build rebuilds the index, and its results are those of the record store as
\* it was when the search started; a search started within 5 minutes of the
\* last completed build does not rebuild; rebuildIndex always rebuilds: when
\* it resolves lastIndexUpdate is the time of the moment and, no other build
\* being under way, the index is that of the record store.
C12_RefreshAfterInterval ==
  \A c \in Calls :
    /\ (Returned(c, "search") /\ Stale(entry[c])) =>
         /\ ret[c].rebuilt
         /\ db = entry[c].db => ret[c].value = AloneOn(db, entry[c])
    /\ (Returned(c, "search") /\ ~Stale(entry[c])) => ~ret[c].rebuilt
    /\ Returned(c, "rebuildIndex") =>
         /\ lastIndexUpdate = now
         /\ (db = entry[c].db /\ ~Building) =>
              SameInstances(fuseInstances, buildAlone(db, broken))

FiveMinutes == 5 * 60 * 1000

\* The call started within 5 minutes of the last completed index build.
InsideInterval(e) == e.at - e.built <= FiveMinutes

SameArguments(e, g) ==
  /\ e.fn = g.fn /\ e.query = g.query /\ e.modules = g.modules
  /\ e.limit = g.limit /\ e.threshold = g.threshold

\* The search that resolved last and the search of caller c that has just
\* resolved are two runs of one search, both inside the refresh interval, with
\* no call of initialize or rebuildIndex and no rebuild by another call
\* between them, on a record store that has not changed since the first
\* started.
TwiceInSequence(c) ==
  /\ Returned(c, "search")
  /\ past.search.fn = "search"
  /\ SameArguments(past.search.call, entry[c])
  /\ InsideInterval(past.search.call)
  /\ InsideInterval(entry[c])
  /\ past.search.builds = past.builds
  /\ past.search.indexAt = entry[c].built
  /\ past.search.call.db = db

\* C13: search(q) run twice in sequence on an unchanged record store, both
\* times inside the refresh interval, returns the same list: same records,
\* same scores, same order.
C13_SameListTwice ==
  \A c \in Calls : TwiceInSequence(c) => ret[c].value = past.search.value

\* C13 witness: the second of two such searches, started some minutes after
\* the first, has returned records.
C13_Witness ==
  \E c \in Calls :
    /\ TwiceInSequence(c)
    /\ entry[c].at > past.search.call.at
    /\ Len(ret[c].value) > 1

\* The index a single initialize leaves: one Fuse instance for each collection
\* that can be read, holding the records of the collection.
AsAfterOneInitialize ==
  /\ searchIndex
  /\ Len(fuseInstances) = Cardinality(StoreNames \ broken)
  /\ SameInstances(fuseInstances, buildAlone(db, broken))
  /\ lastIndexUpdate = past.builtAt

\* C14: initialize is idempotent: once an initialize has resolved and no
\* build is under way, the index is the one a single initialize leaves,
\* however many calls of initialize were made and however they overlapped.
C14_InitializeIdempotent ==
  (past.initialized >= 1 /\ ~Building) => AsAfterOneInitialize

\* C14 witness: the second of two initialize calls has resolved; it started
\* before any build had completed, so the two overlapped.
C14_Witness ==
  \E c \in Calls :
    /\ Returned(c, "initialize")
    /\ past.initialized = 2
    /\ entry[c].built = 0
    /\ ~Building

\* C15: no operation of the search service changes the record store: a step
\* that changes the content of a collection is a write of the application,
\* never a step of initialize, search, semanticSearch or rebuildIndex.
C15_StoreUnchangedByService ==
  [][db' # db => writeStore]_vars

\* C15 witness: a search has rebuilt the index from a record store the
\* application had written to, and the store is as it was when the search
\* started.
C15_Witness ==
  \E c \in Calls :
    /\ Returned(c, "search")
    /\ ret[c].rebuilt
    /\ db = StoreVersions[2]
    /\ entry[c].db = db

SameKey(a, b) == a.type = b.type /\ a.id = b.id

\* The candidates a call that resolved had for its result: those its fuzzy
\* tier kept, scaled by 0.8, and those of its nested searches, scaled by the
\* factor of their tier.
Candidates(c) ==
  { ret[c].fuzzy[i] : i \in 1..Len(ret[c].fuzzy) }
    \cup { ret[c].others[i] : i \in 1..Len(ret[c].others) }

IsMaxScoreOf(r, cands) ==
  /\ \E x \in cands : SameKey(x, r) /\ x.score = r.score
  /\ \A x \in cands : SameKey(x, r) => x.score <= r.score

\* C16: fusion is max-score-wins: the _score of every entry search returns
\* is the highest score among the candidates the fuzzy tier and the NLP tier
\* produced for its (collection, id) pair during the call.
C16_FusionMaxScoreWins ==
  \A c \in Calls :
    Returned(c, "search") =>
      \A i \in 1..Len(ret[c].value) : IsMaxScoreOf(ret[c].value[i], Candidates(c))

\* C16 witness: search returned a record that both tiers found, with
\* different scores.
C16_Witness ==
  \E c \in Calls :
    /\ Returned(c, "search")
    /\ \E i \in 1..Len(ret[c].value), j \in 1..Len(ret[c].fuzzy), k \in 1..Len(ret[c].others) :
         /\ SameKey(ret[c].value[i], ret[c].fuzzy[j])
         /\ SameKey(ret[c].value[i], ret[c].others[k])
         /\ ret[c].fuzzy[j].score # ret[c].others[k].score

\* C17: every entry the fuzzy tier puts into the result map has a _score,
\* the value after the multiplication by 0.8, of at least options.threshold.
C17_ThresholdOnScaledScore ==
  \A c \in Calls :
    Returned(c, "search") =>
      \A i \in 1..Len(ret[c].fuzzy) : ret[c].fuzzy[i].score >= entry[c].threshold

TagsOf(r) == { r.matched[i] : i \in 1..Len(r.matched) }

\* C18: the _matchedFields of a fused result hold the tags of every candidate
\* of its record, those of the fuzzy tier and those of the NLP tier, not only
\* the tags of the candidate whose score won.
C18_MatchedFieldsAccumulate ==
  \A c \in Calls :
    Returned(c, "search") =>
      \A i \in 1..Len(ret[c].value) :
        \A x \in Candidates(c) :
          SameKey(x, ret[c].value[i]) => TagsOf(x) \subseteq TagsOf(ret[c].value[i])

KeysOf(list) == { << list[i].type, list[i].id >> : i \in 1..Len(list) }

\* The candidates of semanticSearch whose collection is in modules
Admitted(c) ==
  SelectSeq(ret[c].others, LAMBDA x : entry[c].modules = NoModules \/ x.type \in entry[c].modules)

\* C19: semanticSearch returns every record its sub-queries found whose
\* collection is in modules, each once, with the highest score among the
\* candidates for the record, and cuts nothing off the merged list.
C19_SemanticSearchMerges ==
  \A c \in Calls :
    Returned(c, "semantic") =>
      /\ KeysOf(ret[c].value) = KeysOf(Admitted(c))
      /\ DistinctKeys(ret[c].value)
      /\ Len(ret[c].value) = Cardinality(KeysOf(Admitted(c)))
      /\ \A i \in 1..Len(ret[c].value) : IsMaxScoreOf(ret[c].value[i], Candidates(c))

\* C19 witness: semanticSearch with modules returned a record that two
\* sub-queries found with different scores and left out a record of another
\* collection.
C19_Witness ==
  \E c \in Calls :
    /\ Returned(c, "semantic")
    /\ entry[c].modules # NoModules
    /\ Len(Admitted(c)) < Len(ret[c].others)
    /\ \E j, k \in 1..Len(ret[c].others) :
         /\ SameKey(ret[c].others[j], ret[c].others[k])
         /\ ret[c].others[j].score < ret[c].others[k].score
         /\ \E i \in 1..Len(ret[c].value) : SameKey(ret[c].value[i], ret[c].others[j])

\* C20: a name in options.modules that is no indexed collection is not an
\* error: the search returns, every record it returns is of a collection
\* listed in modules, none is of the unknown name, and modules with unknown
\* names only gives the empty list.
C20_UnknownModuleIsNoError ==
  \A c \in Calls :
    (entry[c].fn = "search" /\ entry[c].modules # NoModules /\ ret[c].status # "none") =>
      /\ ret[c].status = "ok"
      /\ \A i \in 1..Len(ret[c].value) :
           /\ ret[c].value[i].type \in entry[c].modules
           /\ ret[c].value[i].type \in StoreNames
      /\ entry[c].modules \cap StoreNames = {} => ret[c].value = << >>

\* C20 witness: a search whose modules names a collection and an unknown name
\* returned records of the collection.
C20_Witness ==
  \E c \in Calls :
    /\ Returned(c, "search")
    /\ entry[c].modules \ StoreNames # {}
    /\ entry[c].modules \cap StoreNames # {}
    /\ ret[c].value # << >>

\* The Fuse instances other than the one of a collection
Without(fi, name) == SelectSeq(fi, LAMBDA e : e.name # name)

\* C21: when the fuzzy-match library throws while search queries one
\* collection, search does not reject: it resolves with the candidates of the
\* other collections and none of that collection.
C21_FuzzyThrowRecovered ==
  \A c \in Calls :
    ret[c].threw # "" =>
      /\ ret[c].status = "ok"
      /\ \A i \in 1..Len(ret[c].value) : ret[c].value[i].type # ret[c].threw
      /\ entry[c].fn = "search" =>
           ret[c].value = searchOn(Without(fuseInstances, ret[c].threw), entry[c].query,
                                   entry[c].modules, entry[c].limit, entry[c].threshold,
                                   MaxDepth)

RunEnds(h) == run[h].pc # "idle" /\ run'[h].pc = "idle"

\* A rejection waits for nothing but the catch of the run that awaits it
Caught(h) ==
  ret[h].status = "rejected" =>
    /\ run[h].pc \in { "first", "second" }
    /\ ENABLED (firstRejects(h) \/ secondRejects(h))

ScoresOf(list) == { list[i].score : i \in 1..Len(list) }

\* C23: every _score in a list search or semanticSearch returns lies between
\* 0 and 1 (Fuse reports distances between 0 and 1).
C23_ScoreInUnitRange ==
  \A c \in Calls :
    (Returned(c, "search") \/ Returned(c, "semantic")) =>
      \A x \in ScoresOf(ret[c].value) : 0 <= x /\ x <= Unit

\* C23 witness: a search returned a perfect fuzzy match together with a
\* candidate of its NLP tier, or semanticSearch returned rescaled candidates.
C23_Witness ==
  \E c \in Calls :
    /\ Returned(c, "search") \/ Returned(c, "semantic")
    /\ ret[c].others # << >>
    /\ Cardinality(ScoresOf(ret[c].value)) >= 2
    /\ \E x \in ScoresOf(ret[c].value) : x >= Mul(Unit, 7)

FindCheapFood == << "find", "cheap", "food" >>

\* C24 as stated: parseSearchQuery("find cheap food") yields
\* filters.amount.max = 20 and filters.type = "food".
C24_FindCheapFood ==
  (applied.fn = "parseSearchQuery" /\ applied.args = << FindCheapFood >>) =>
    /\ applied.value.filters.amount.max = 20
    /\ applied.value.filters.type = "food"

\* C24 as amended: parseSearchQuery("find cheap food") yields
\* filters.amount.max = 20 and no filters.type; the query "costly restaurant",
\* which has a keyword of the type table, yields filters.type = "food".
C24_FindCheapFoodHasNoType ==
  /\ (applied.fn = "parseSearchQuery" /\ applied.args = << FindCheapFood >>) =>
       /\ applied.value.filters.amount.max = 20
       /\ applied.value.filters.type = ""
  /\ (applied.fn = "parseSearchQuery" /\ applied.args = << << "costly", "restaurant" >> >>) =>
       applied.value.filters.type = "food"

\* C24 witness: parseSearchQuery was applied to "find cheap food".
C24_Witness ==
  /\ applied.fn = "parseSearchQuery"
  /\ applied.args = << FindCheapFood >>
  /\ applied.value.originalQuery = FindCheapFood

\* The lower-case text of the query a parseSearchQuery was applied to
ParsedText == lowerCase(textOf(applied.args[1]))

SaysExpensive == includes(ParsedText, Spell("expensive")) \/ includes(ParsedText, Spell("costly"))
SaysCheap == includes(ParsedText, Spell("cheap")) \/ includes(ParsedText, Spell("budget"))

\* C25 as stated: the two amount filters are derived independently:
\* filters.amount.min = 50 whenever the query contains "expensive" or "costly",
\* filters.amount.max = 20 whenever it contains "cheap" or "budget", also when
\* it contains a keyword of both groups.
C25_AmountFiltersIndependent ==
  applied.fn = "parseSearchQuery" =>
    /\ SaysExpensive => applied.value.filters.amount.min = 50
    /\ SaysCheap => applied.value.filters.amount.max = 20

\* C25 as amended: filters.amount.max = 20 whenever the query contains "cheap"
\* or "budget"; filters.amount.min = 50 whenever it contains "expensive" or
\* "costly" and neither "cheap" nor "budget"; a query with a keyword of both
\* groups has no filters.amount.min.
C25_CheapReplacesExpensive ==
  applied.fn = "parseSearchQuery" =>
    /\ SaysCheap => applied.value.filters.amount = [ min |-> Undefined, max |-> 20 ]
    /\ (SaysExpensive /\ ~SaysCheap) =>
         applied.value.filters.amount = [ min |-> 50, max |-> Undefined ]

\* C25 witness: parseSearchQuery was applied to a query with a keyword of
\* both groups.
C25_Witness ==
  /\ applied.fn = "parseSearchQuery"
  /\ SaysExpensive
  /\ SaysCheap
  /\ applied.value.filters.amount.max = 20

DinnerInParis ==
  << "I", "had", "an", "amazing", "dinner", "in", "Paris", "with", "Maria,", "cost",
     "$45.50", "on", "12/05/2024" >>

ListOf(seq) == { seq[i] : i \in 1..Len(seq) }

\* C26 as stated: extractEntities("I had an amazing dinner in Paris with
\* Maria, cost $45.50 on 12/05/2024") yields sentiment "positive" and
\* categories that contain "food" and "travel".
C26_DinnerIsFoodAndTravel ==
  (applied.fn = "extractEntities" /\ applied.args = << DinnerInParis >>) =>
    /\ applied.value.sentiment = "positive"
    /\ { "food", "travel" } \subseteq ListOf(applied.value.categories)

\* C26 as amended: for that text the sentiment is "positive" and the list of
\* categories is empty; for every text a category is in the list exactly when
\* one of its keywords is a substring of the lower-case text.
C26_CategoriesByKeywordOnly ==
  applied.fn = "extractEntities" =>
    /\ applied.args = << DinnerInParis >> =>
         /\ applied.value.sentiment = "positive"
         /\ applied.value.categories = << >>
    /\ \A i \in 1..Len(categoryMap) :
         categoryMap[i].category \in ListOf(applied.value.categories)
           <=> \E k \in 1..Len(categoryMap[i].keywords) :
                 includes(lowerCase(textOf(applied.args[1])),
                          Spell(categoryMap[i].keywords[k]))

\* C26 witness: extractEntities was applied to the text of the example.
C26_Witness ==
  /\ applied.fn = "extractEntities"
  /\ applied.args = << DinnerInParis >>
  /\ applied.value.people = << "Maria" >>
  /\ applied.value.places = << "Paris" >>

\* The lower-case text an extractEntities was applied to
AnalyzedText == lowerCase(textOf(applied.args[1]))

\* The label the counts p and n call for
Verdict(p, n) == IF p > n THEN "positive" ELSE IF n > p THEN "negative" ELSE "neutral"

\* The number of words of a list that occur in the text at least once
WordsPresent(text, wordList) ==
  Cardinality({ w \in ListOf(wordList) : includes(text, Spell(w)) })

\* C27 as stated: the sentiment is "positive" exactly when the positive count
\* is strictly greater, "negative" exactly when the negative count is, and
\* "neutral" on every tie, the count of a list being the number of occurrences
\* of its words in the text.
C27_SentimentByOccurrences ==
  applied.fn = "extractEntities" =>
    applied.value.sentiment =
      Verdict(polarityByOccurrence(AnalyzedText, positiveWords),
              polarityByOccurrence(AnalyzedText, negativeWords))

\* C27 as amended: the same, the count of a list being the number of its
\* words that occur in the text, a word that occurs several times counting
\* once.
C27_SentimentByWordsPresent ==
  applied.fn = "extractEntities" =>
    applied.value.sentiment =
      Verdict(WordsPresent(AnalyzedText, positiveWords),
              WordsPresent(AnalyzedText, negativeWords))

\* C27 witness: extractEntities was applied to a text in which a positive
\* word occurs twice and a negative word once, and found it neutral.
C27_Witness ==
  /\ applied.fn = "extractEntities"
  /\ polarityByOccurrence(AnalyzedText, positiveWords) = 2
  /\ polarityByOccurrence(AnalyzedText, negativeWords) = 1
  /\ applied.value.sentiment = "neutral"

SnippetItem == applied.args[1]
SnippetQuery == applied.args[2]

\* The text ends in "..."
EndsInEllipsis(text) ==
  Len(text) >= 3 /\ SubSeq(text, Len(text) - 2, Len(text)) = Ellipsis

\* The description is longer than 150 characters and contains a query word
LongMatchingDescription ==
  LET words == split(lowerCase(SnippetQuery), " ")
  IN  /\ Len(SnippetItem.description) > SnippetLength
      /\ \E i \in 1..Len(words) : includes(lowerCase(SnippetItem.description), words[i])

\* The sentences of the text the snippet is taken from that hold the most
\* query words, and at least one
MostMatching ==
  LET words == split(lowerCase(SnippetQuery), " ")
      sentences == splitSentences(snippetSource(SnippetItem))
      count(k) == matchCount(sentences[k], words)
  IN  { k \in 1..Len(sentences) :
          count(k) > 0 /\ \A j \in 1..Len(sentences) : count(j) <= count(k) }

\* The first of them is longer than 150 characters
LongMatchingSentence ==
  /\ MostMatching # {}
  /\ Len(splitSentences(snippetSource(SnippetItem))[Nth(MostMatching, 1)]) > SnippetLength

\* C29 as stated: for every record whose description text is longer than 150
\* characters and contains a query word, the generated snippet has length at
\* most 153 and ends in "..."; for every record the snippet is never longer
\* than 153 characters.
C29_LongDescriptionIsCut ==
  applied.fn = "generateSnippet" =>
    /\ LongMatchingDescription =>
         Len(applied.value) <= SnippetLength + 3 /\ EndsInEllipsis(applied.value)
    /\ Len(applied.value) <= SnippetLength + 3

\* C29 as amended: for every record whose best-matching sentence (the first
\* of the sentences with the most query words) is longer than 150 characters,
\* the generated snippet has length at most 153 and ends in "..."; for every
\* record the snippet is never longer than 153 characters.
C29_LongSentenceIsCut ==
  applied.fn = "generateSnippet" =>
    /\ LongMatchingSentence =>
         Len(applied.value) <= SnippetLength + 3 /\ EndsInEllipsis(applied.value)
    /\ Len(applied.value) <= SnippetLength + 3

\* C29 witness: a snippet of 153 characters was cut from a description of
\* more than 150 characters whose best-matching sentence is that long.
C29_Witness ==
  /\ applied.fn = "generateSnippet"
  /\ LongMatchingDescription
  /\ LongMatchingSentence
  /\ Len(applied.value) = SnippetLength + 3
  /\ EndsInEllipsis(applied.value)

\* A buildSearchIndex has completed, none is under way, and no read fails
BuildComplete ==
  /\ broken = {}
  /\ past.builtAt > 0
  /\ \A c \in Calls : \A k \in 1..Len(stack[c]) : stack[c][k].pc # "getAll"

\* The ids of a list of records
IdsOf(items) == { items[k].id : k \in 1..Len(items) }

\* The records the store has held at some time and did not return when their
\* collection was last read
Gone ==
  { x \in StoreNames \X { "1", "2", "3", "4" } :
      /\ \E v \in 1..Len(StoreVersions) : x[2] \in IdsOf(StoreVersions[v][x[1]])
      /\ x[2] \notin IdsOf(past.read[x[1]]) }

\* C30: after a buildSearchIndex that completes with no read failure and no
\* overlapping rebuild, the fuzzy structures hold exactly the records the
\* store returned at read time, one structure per collection for all 8
\* collections, and every indexed entry's _type equals the collection it was
\* read from, overriding any _type field of the stored record; a record
\* deleted from the store before the rebuild is returned by no later search.
C30_IndexIsTheStoreAsRead ==
  BuildComplete =>
    /\ Len(Stores) = 8
    /\ Len(fuseInstances) = Len(Stores)
    /\ \A i \in 1..Len(Stores) :
         LET structure == fuseInstances[i]
             returned == past.read[Stores[i]]
         IN  /\ structure.name = Stores[i]
             /\ Len(structure.items) = Len(returned)
             /\ \A k \in 1..Len(returned) :
                  /\ structure.items[k].id = returned[k].id
                  /\ structure.items[k].words = returned[k].words
                  /\ structure.items[k].at = returned[k].at
                  /\ structure.items[k].type = Stores[i]
    /\ \A c \in Calls :
         ret[c].status = "ok" =>
           \A k \in 1..Len(ret[c].value) :
             << ret[c].value[k].type, ret[c].value[k].id >> \notin Gone

\* C30 witness: after a person was deleted and the index rebuilt, a search
\* returns records, the deleted one not among them, and the journal entry
\* stored with the _type "people" is indexed as a journal entry.
C30_Witness ==
  /\ BuildComplete
  /\ past.builds > 0
  /\ << "people", "2" >> \in Gone
  /\ "4" \in IdsOf(past.read["travelPins"])
  /\ past.read["journalEntries"][1].type = "people"
  /\ fuseInstances[3].items[1].type = "journalEntries"
  /\ ret[1].status = "ok"
  /\ entry[1].fn = "search"
  /\ Len(ret[1].value) > 1

====
